---------------------------- MODULE Spec2Model ----------------------------
(***************************************************************************)
(* Model of the response interpretation layer of the Customer 360 demo:    *)
(* CortexClient in src/streamlit/utils/cortex_client.py.                   *)
(*                                                                         *)
(* Python values are tagged records:                                       *)
(*   None  [t |-> "none"]            bool  [t |-> "bool", b |-> TRUE]      *)
(*   int   [t |-> "int", n |-> 3]    str   [t |-> "str", s |-> <<...>>]    *)
(*   list  [t |-> "list", a |-> <<v1, v2>>]                                *)
(*   dict  [t |-> "dict", d |-> <<[k |-> key, v |-> value], ...>>]         *)
(* A str is the sequence of its characters.  To keep literals short, a     *)
(* run of characters may be written as one atom ("Hello there"); in a text *)
(* that the code parses, lower-cases or searches, such an atom never holds *)
(* JSON syntax, a quote, a backslash, a digit, a space or a keyword the    *)
(* code looks for.  Numbers are non-negative integers: the code treats     *)
(* int64 and float64 columns alike, so fractions add nothing.              *)
(***************************************************************************)
EXTENDS Integers, Sequences, FiniteSets, TLC

---------------------------------------------------------------------------
(* Python values *)

PyNone == [t |-> "none"]

PyBool(b) == [t |-> "bool", b |-> b]

PyInt(n) == [t |-> "int", n |-> n]

PyStr(s) == [t |-> "str", s |-> s]

(* a str written as one atom *)
S(atom) == PyStr(<<atom>>)

PyList(a) == [t |-> "list", a |-> a]

PyDict(d) == [t |-> "dict", d |-> d]

KV(k, v) == [k |-> k, v |-> v]

Range(f) == {f[i] : i \in DOMAIN f}

(* dict.keys(), in insertion order *)
Keys(m) == [i \in DOMAIN m.d |-> m.d[i].k]

HasKey(m, key) == \E i \in DOMAIN m.d : m.d[i].k = key

(* dict.get(key, default) *)
DictGet(m, key, default) ==
    IF HasKey(m, key)
    THEN m.d[CHOOSE i \in DOMAIN m.d : m.d[i].k = key].v
    ELSE default

(* d[key] = value on a dict: a new key goes last, an old key keeps its place *)
DictSet(d, key, value) ==
    IF \E i \in DOMAIN d : d[i].k = key
    THEN [i \in DOMAIN d |-> IF d[i].k = key THEN KV(key, value) ELSE d[i]]
    ELSE Append(d, KV(key, value))

(* bool(v): Python truthiness, as used by `if customer_id:` and `not data` *)
Truthy(v) ==
    CASE v.t = "none" -> FALSE
      [] v.t = "bool" -> v.b
      [] v.t = "int"  -> v.n # 0
      [] v.t = "str"  -> v.s # <<>>
      [] v.t = "list" -> v.a # <<>>
      [] v.t = "dict" -> v.d # <<>>
      [] OTHER        -> TRUE

---------------------------------------------------------------------------
(* Strings *)

UpperToLower ==
    [c \in {"A","B","C","D","E","F","G","H","I","J","K","L","M","N","O","P",
            "Q","R","S","T","U","V","W","X","Y","Z"} |->
       CASE c = "A" -> "a" [] c = "B" -> "b" [] c = "C" -> "c" [] c = "D" -> "d"
         [] c = "E" -> "e" [] c = "F" -> "f" [] c = "G" -> "g" [] c = "H" -> "h"
         [] c = "I" -> "i" [] c = "J" -> "j" [] c = "K" -> "k" [] c = "L" -> "l"
         [] c = "M" -> "m" [] c = "N" -> "n" [] c = "O" -> "o" [] c = "P" -> "p"
         [] c = "Q" -> "q" [] c = "R" -> "r" [] c = "S" -> "s" [] c = "T" -> "t"
         [] c = "U" -> "u" [] c = "V" -> "v" [] c = "W" -> "w" [] c = "X" -> "x"
         [] c = "Y" -> "y" [] c = "Z" -> "z"]

(* str.lower() *)
Lower(s) ==
    [i \in DOMAIN s |-> IF s[i] \in DOMAIN UpperToLower THEN UpperToLower[s[i]] ELSE s[i]]

(* `word in s`: substring containment *)
Contains(s, word) ==
    \E i \in 0..(Len(s) - Len(word)) :
        \A j \in 1..Len(word) : s[i + j] = word[j]

(* any(word in s for word in words) *)
ContainsAny(s, words) == \E w \in words : Contains(s, w)

Digits == <<"0","1","2","3","4","5","6","7","8","9">>

IsDigit(c) == \E i \in 1..10 : Digits[i] = c

DigitVal(c) == (CHOOSE i \in 1..10 : Digits[i] = c) - 1

RECURSIVE IntToStr(_)
(* str(n) for n >= 0 *)
IntToStr(n) ==
    IF n < 10 THEN <<Digits[n + 1]>>
    ELSE Append(IntToStr(n \div 10), Digits[(n % 10) + 1])

---------------------------------------------------------------------------
(* JSON text.  The alphabet of the model's texts: letters and letter runs,  *)
(* digits, space, the JSON punctuation { } [ ] , : the two quotes and the   *)
(* backslash (no ".", "-", "+" or control character, so every number of a   *)
(* text is an integer and the only escapes are of a quote or a backslash).  *)

RECURSIVE JoinWith(_, _)
(* sep.join(parts) *)
JoinWith(parts, sep) ==
    IF parts = <<>> THEN <<>>
    ELSE IF Len(parts) = 1 THEN parts[1]
    ELSE parts[1] \o sep \o JoinWith(Tail(parts), sep)

RECURSIVE EscapeJson(_)
(* the body of a JSON string literal: the quote and the backslash escaped *)
EscapeJson(s) ==
    IF s = <<>> THEN <<>>
    ELSE (IF Head(s) \in {"\"", "\\"} THEN <<"\\", Head(s)>> ELSE <<Head(s)>>)
         \o EscapeJson(Tail(s))

RECURSIVE JsonEncode(_)
(* json.dumps(v), default separators *)
JsonEncode(v) ==
    CASE v.t = "none" -> <<"n","u","l","l">>
      [] v.t = "bool" -> IF v.b THEN <<"t","r","u","e">> ELSE <<"f","a","l","s","e">>
      [] v.t = "int"  -> IntToStr(v.n)
      [] v.t = "str"  -> <<"\"">> \o EscapeJson(v.s) \o <<"\"">>
      [] v.t = "list" ->
            <<"[">> \o JoinWith([i \in DOMAIN v.a |-> JsonEncode(v.a[i])], <<",", " ">>)
                    \o <<"]">>
      [] v.t = "dict" ->
            <<"{">> \o JoinWith([i \in DOMAIN v.d |->
                                   <<"\"">> \o EscapeJson(v.d[i].k) \o <<"\"", ":", " ">>
                                   \o JsonEncode(v.d[i].v)], <<",", " ">>)
                    \o <<"}">>

(* A parse step's result: the value and the index after it, or a failure. *)
ParseFail == [ok |-> FALSE]

ParseOk(v, i) == [ok |-> TRUE, v |-> v, i |-> i]

RECURSIVE SkipWs(_, _)
SkipWs(s, i) == IF i <= Len(s) /\ s[i] = " " THEN SkipWs(s, i + 1) ELSE i

StartsAt(s, i, word) ==
    /\ i + Len(word) - 1 <= Len(s)
    /\ \A j \in 1..Len(word) : s[i + j - 1] = word[j]

RECURSIVE ParseDigits(_, _, _)
ParseDigits(s, i, acc) ==
    IF i <= Len(s) /\ IsDigit(s[i])
    THEN ParseDigits(s, i + 1, acc * 10 + DigitVal(s[i]))
    ELSE ParseOk(PyInt(acc), i)

(* a JSON integer: 0, or a digit run without a leading zero *)
ParseNumber(s, i) ==
    IF s[i] = "0" THEN ParseOk(PyInt(0), i + 1) ELSE ParseDigits(s, i, 0)

RECURSIVE ParseString(_, _, _)
(* the characters after an opening quote, up to the closing quote *)
ParseString(s, i, acc) ==
    IF i > Len(s) THEN ParseFail
    ELSE IF s[i] = "\"" THEN ParseOk(acc, i + 1)
    ELSE IF s[i] = "\\"
         THEN IF i + 1 <= Len(s) /\ s[i + 1] \in {"\"", "\\", "/"}
              THEN ParseString(s, i + 2, Append(acc, s[i + 1]))
              ELSE ParseFail
    ELSE ParseString(s, i + 1, Append(acc, s[i]))

RECURSIVE ParseValue(_, _)
RECURSIVE ParseElems(_, _, _)
RECURSIVE ParseMembers(_, _, _)

(* the elements of an array after "[" or after a comma *)
ParseElems(s, i, acc) ==
    LET r == ParseValue(s, SkipWs(s, i)) IN
    IF ~r.ok THEN ParseFail
    ELSE LET j == SkipWs(s, r.i) IN
         IF j > Len(s) THEN ParseFail
         ELSE IF s[j] = "," THEN ParseElems(s, j + 1, Append(acc, r.v))
         ELSE IF s[j] = "]" THEN ParseOk(PyList(Append(acc, r.v)), j + 1)
         ELSE ParseFail

(* the members of an object after "{" or after a comma *)
ParseMembers(s, i, acc) ==
    LET k0 == SkipWs(s, i) IN
    IF k0 > Len(s) \/ s[k0] # "\"" THEN ParseFail
    ELSE LET key == ParseString(s, k0 + 1, <<>>) IN
         IF ~key.ok THEN ParseFail
         ELSE LET c == SkipWs(s, key.i) IN
              IF c > Len(s) \/ s[c] # ":" THEN ParseFail
              ELSE LET r == ParseValue(s, SkipWs(s, c + 1)) IN
                   IF ~r.ok THEN ParseFail
                   ELSE LET j == SkipWs(s, r.i) IN
                        IF j > Len(s) THEN ParseFail
                        ELSE IF s[j] = ","
                             THEN ParseMembers(s, j + 1, DictSet(acc, key.v, r.v))
                        ELSE IF s[j] = "}"
                             THEN ParseOk(PyDict(DictSet(acc, key.v, r.v)), j + 1)
                        ELSE ParseFail

ParseValue(s, i) ==
    IF i > Len(s) THEN ParseFail
    ELSE IF s[i] = "\""
         THEN LET r == ParseString(s, i + 1, <<>>) IN
              IF r.ok THEN ParseOk(PyStr(r.v), r.i) ELSE ParseFail
    ELSE IF s[i] = "["
         THEN LET j == SkipWs(s, i + 1) IN
              IF j <= Len(s) /\ s[j] = "]" THEN ParseOk(PyList(<<>>), j + 1)
              ELSE ParseElems(s, j, <<>>)
    ELSE IF s[i] = "{"
         THEN LET j == SkipWs(s, i + 1) IN
              IF j <= Len(s) /\ s[j] = "}" THEN ParseOk(PyDict(<<>>), j + 1)
              ELSE ParseMembers(s, j, <<>>)
    ELSE IF IsDigit(s[i]) THEN ParseNumber(s, i)
    ELSE IF StartsAt(s, i, <<"n","u","l","l">>) THEN ParseOk(PyNone, i + 4)
    ELSE IF StartsAt(s, i, <<"t","r","u","e">>) THEN ParseOk(PyBool(TRUE), i + 4)
    ELSE IF StartsAt(s, i, <<"f","a","l","s","e">>) THEN ParseOk(PyBool(FALSE), i + 5)
    ELSE ParseFail

(* json.loads(s): [ok |-> TRUE, v |-> value], or [ok |-> FALSE] for a      *)
(* json.JSONDecodeError (no value, a malformed value, or extra data)       *)
json_loads(s) ==
    LET r == ParseValue(s, SkipWs(s, 1)) IN
    IF r.ok /\ SkipWs(s, r.i) > Len(s) THEN [ok |-> TRUE, v |-> r.v] ELSE ParseFail

---------------------------------------------------------------------------
(* str() and repr() of Python values *)

RECURSIVE EscapeRepr(_, _)
(* the body of a repr: the backslash and the enclosing quote escaped *)
EscapeRepr(s, q) ==
    IF s = <<>> THEN <<>>
    ELSE (IF Head(s) \in {"\\", q} THEN <<"\\", Head(s)>> ELSE <<Head(s)>>)
         \o EscapeRepr(Tail(s), q)

(* repr(str): single quotes, unless the text holds a single quote and no   *)
(* double quote                                                            *)
StrRepr(s) ==
    LET q == IF "'" \in Range(s) /\ "\"" \notin Range(s) THEN "\"" ELSE "'" IN
    <<q>> \o EscapeRepr(s, q) \o <<q>>

RECURSIVE PyRepr(_)
PyRepr(v) ==
    CASE v.t = "none" -> <<"N","o","n","e">>
      [] v.t = "bool" -> IF v.b THEN <<"T","r","u","e">> ELSE <<"F","a","l","s","e">>
      [] v.t = "int"  -> IntToStr(v.n)
      [] v.t = "str"  -> StrRepr(v.s)
      [] v.t = "list" ->
            <<"[">> \o JoinWith([i \in DOMAIN v.a |-> PyRepr(v.a[i])], <<",", " ">>)
                    \o <<"]">>
      [] v.t = "dict" ->
            <<"{">> \o JoinWith([i \in DOMAIN v.d |->
                                   StrRepr(v.d[i].k) \o <<":", " ">> \o PyRepr(v.d[i].v)],
                                <<",", " ">>)
                    \o <<"}">>

(* str(v) taken for the JSON text of v *)
str_as_json(v) == IF v.t = "str" THEN v.s ELSE JsonEncode(v)

(* str(v): a str is itself, anything else is its repr *)
str(v) == IF v.t = "str" THEN v.s ELSE PyRepr(v)

(* str.strip() = "": the text is blank *)
IsBlank(s) == \A i \in DOMAIN s : s[i] = " "

---------------------------------------------------------------------------
(* pandas.DataFrame, as far as the chart builders read it: the column      *)
(* names in order, each column's cells and dtype, and the row count.       *)

NaN == [t |-> "nan"]

RECURSIVE UnionKeys(_, _)
(* the column index of a list of records: keys in order of first appearance *)
UnionKeys(rows, acc) ==
    IF rows = <<>> THEN acc
    ELSE LET ks  == Keys(Head(rows))
             new == SelectSeq(ks, LAMBDA k : k \notin Range(acc))
         IN  UnionKeys(Tail(rows), acc \o new)

(* the dtype pandas infers for a column of cells: a key a row lacks is NaN, *)
(* which (like None among numbers) turns an integer column into float64    *)
Dtype(cells) ==
    LET kinds == {cells[i].t : i \in DOMAIN cells} IN
    IF kinds = {"int"} THEN "int64"
    ELSE IF kinds \subseteq {"int", "nan", "none"} /\ kinds \cap {"int", "nan"} # {}
         THEN "float64"
    ELSE IF kinds = {"bool"} THEN "bool"
    ELSE "object"

(* pd.DataFrame(rows) for a list of dicts *)
DataFrame(rows) ==
    LET cols == UnionKeys(rows, <<>>) IN
    [columns |-> cols,
     col     |-> [c \in Range(cols) |->
                    [i \in DOMAIN rows |-> DictGet(rows[i], c, NaN)]],
     len     |-> Len(rows)]

ColDtype(df, c) == Dtype(df.col[c])

IsNumeric(df, c) == ColDtype(df, c) \in {"int64", "float64"}

---------------------------------------------------------------------------
(* Chart builders.  A plotly figure is the builder called, the columns it  *)
(* binds and its title; None is PyNone.                                    *)

Figure(fn, x, y, title) == [t |-> "fig", fn |-> fn, x |-> x, y |-> y, title |-> title]

kw_date == <<"d","a","t","e">>

kw_time == <<"t","i","m","e">>

kw_trend == <<"t","r","e","n","d">>

kw_tier == <<"t","i","e","r">>

kw_category == <<"c","a","t","e","g","o","r","y">>

kw_risk == <<"r","i","s","k">>

kw_score == <<"s","c","o","r","e">>

(* the rows above which a category chart is a bar chart instead of a pie *)
PieMaxRows == 5

date_cols(df) ==
    SelectSeq(df.columns, LAMBDA c : Contains(Lower(c), kw_date) \/ Contains(Lower(c), kw_time))

(* the numeric columns without those that have a temporal name *)
value_cols_not_temporal(df) ==
    SelectSeq(df.columns,
              LAMBDA c : IsNumeric(df, c)
                         /\ ~(Contains(Lower(c), kw_date) \/ Contains(Lower(c), kw_time)))

value_cols(df) == SelectSeq(df.columns, LAMBDA c : IsNumeric(df, c))

(* the text columns that have no temporal name and at most half as many    *)
(* distinct values as rows                                                 *)
text_cols_few_distinct(df) ==
    SelectSeq(df.columns,
              LAMBDA c : /\ ColDtype(df, c) = "object"
                         /\ ~(Contains(Lower(c), kw_date) \/ Contains(Lower(c), kw_time))
                         /\ 2 * Cardinality({df.col[c][i] : i \in 1..df.len}) <= df.len)

text_cols(df) == SelectSeq(df.columns, LAMBDA c : ColDtype(df, c) = "object")

(* a line chart of the last date column and the last numeric column *)
create_time_series_chart_last(df) ==
    IF date_cols(df) # <<>> /\ value_cols(df) # <<>>
    THEN Figure("line", date_cols(df)[Len(date_cols(df))],
                value_cols(df)[Len(value_cols(df))], "Trend Analysis")
    ELSE PyNone

create_time_series_chart(df) ==
    IF date_cols(df) # <<>> /\ value_cols(df) # <<>>
    THEN Figure("line", date_cols(df)[1], value_cols(df)[1], "Trend Analysis")
    ELSE PyNone

(* a category chart that is a pie only below the row count, not at it *)
create_category_chart_below(df) ==
    IF text_cols(df) # <<>> /\ value_cols(df) # <<>>
    THEN IF df.len < PieMaxRows
         THEN Figure("pie", text_cols(df)[1], value_cols(df)[1], "Distribution")
         ELSE Figure("bar", text_cols(df)[1], value_cols(df)[1], "Category Analysis")
    ELSE PyNone

create_category_chart(df) ==
    IF text_cols(df) # <<>> /\ value_cols(df) # <<>>
    THEN IF df.len <= PieMaxRows
         THEN Figure("pie", text_cols(df)[1], value_cols(df)[1], "Distribution")
         ELSE Figure("bar", text_cols(df)[1], value_cols(df)[1], "Category Analysis")
    ELSE PyNone

create_scatter_chart(df) ==
    IF Len(value_cols(df)) >= 2
    THEN Figure("scatter", value_cols(df)[1], value_cols(df)[2], "Correlation Analysis")
    ELSE PyNone

(* a bar chart of the first column against the first numeric column *)
create_bar_chart_numeric_values(df) ==
    IF Len(df.columns) >= 2
    THEN Figure("bar", df.columns[1],
                IF value_cols(df) # <<>> THEN value_cols(df)[1] ELSE df.columns[2],
                "Data Analysis")
    ELSE PyNone

(* a bar chart of any frame that has a column *)
create_bar_chart_one_column(df) ==
    IF Len(df.columns) >= 1
    THEN Figure("bar", df.columns[1], df.columns[Len(df.columns)], "Data Analysis")
    ELSE PyNone

create_bar_chart(df) ==
    IF Len(df.columns) >= 2
    THEN Figure("bar", df.columns[1], df.columns[2], "Data Analysis")
    ELSE PyNone

kw_distribution == <<"d","i","s","t","r","i","b","u","t","i","o","n">>

(* the chain with "distribution" among the keywords of the category chart *)
chart_for_context_distribution(df, context) ==
    LET lc == Lower(context) IN
    IF Contains(lc, kw_trend) \/ Contains(lc, kw_time) THEN create_time_series_chart(df)
    ELSE IF Contains(lc, kw_tier) \/ Contains(lc, kw_category)
              \/ Contains(lc, kw_distribution)
    THEN create_category_chart(df)
    ELSE IF Contains(lc, kw_risk) \/ Contains(lc, kw_score) THEN create_scatter_chart(df)
    ELSE create_bar_chart(df)

kw_correlation == <<"c","o","r","r","e","l","a","t","i","o","n">>

(* the chain with "correlation" among the keywords of the scatter chart *)
chart_for_context_correlation(df, context) ==
    LET lc == Lower(context) IN
    IF Contains(lc, kw_trend) \/ Contains(lc, kw_time) THEN create_time_series_chart(df)
    ELSE IF Contains(lc, kw_tier) \/ Contains(lc, kw_category) THEN create_category_chart(df)
    ELSE IF Contains(lc, kw_risk) \/ Contains(lc, kw_score)
              \/ Contains(lc, kw_correlation)
    THEN create_scatter_chart(df)
    ELSE create_bar_chart(df)

(* the chain with the category keywords tested before the trend keywords *)
chart_for_context_category_first(df, context) ==
    LET lc == Lower(context) IN
    IF Contains(lc, kw_tier) \/ Contains(lc, kw_category) THEN create_category_chart(df)
    ELSE IF Contains(lc, kw_trend) \/ Contains(lc, kw_time) THEN create_time_series_chart(df)
    ELSE IF Contains(lc, kw_risk) \/ Contains(lc, kw_score) THEN create_scatter_chart(df)
    ELSE create_bar_chart(df)

(* the chain as ordered rules: a keyword whose builder finds no columns    *)
(* leaves the decision to the later rules                                  *)
chart_for_context_fallthrough(df, context) ==
    LET lc == Lower(context) IN
    IF (Contains(lc, kw_trend) \/ Contains(lc, kw_time))
         /\ create_time_series_chart(df) # PyNone
    THEN create_time_series_chart(df)
    ELSE IF (Contains(lc, kw_tier) \/ Contains(lc, kw_category))
              /\ create_category_chart(df) # PyNone
    THEN create_category_chart(df)
    ELSE IF (Contains(lc, kw_risk) \/ Contains(lc, kw_score))
              /\ create_scatter_chart(df) # PyNone
    THEN create_scatter_chart(df)
    ELSE create_bar_chart(df)

(* the chart chosen for a frame by the keywords of the question context *)
chart_for_context(df, context) ==
    LET lc == Lower(context) IN
    IF Contains(lc, kw_trend) \/ Contains(lc, kw_time) THEN create_time_series_chart(df)
    ELSE IF Contains(lc, kw_tier) \/ Contains(lc, kw_category) THEN create_category_chart(df)
    ELSE IF Contains(lc, kw_risk) \/ Contains(lc, kw_score) THEN create_scatter_chart(df)
    ELSE create_bar_chart(df)

(* _create_chart_if_needed: None for data that is falsy or no list or dict, *)
(* for a list whose first element is no dict, and when building the frame  *)
(* raises (a later element that is no dict), which the except swallows     *)
create_chart_if_needed(data, context) ==
    IF ~Truthy(data) \/ data.t \notin {"list", "dict"} THEN PyNone
    ELSE IF data.t = "list"
         THEN IF data.a[1].t # "dict" THEN PyNone
              ELSE IF \E i \in DOMAIN data.a : data.a[i].t # "dict" THEN PyNone
              ELSE chart_for_context(DataFrame(data.a), context)
    ELSE chart_for_context(DataFrame(<<data>>), context)

---------------------------------------------------------------------------
(* Inputs: questions, customer ids, upstream payloads and errors *)

(* the largest number of rows in a payload's table *)
MaxRows == 2

(* the most characters cut off the end of a JSON text to break it *)
MaxCut == 2

q_churn == <<"c","h","u","r","n"," ","r","i","s","k">>

q_revenue == <<"R","e","v","e","n","u","e"," ","t","r","e","n","d">>

q_support == <<"S","u","p","p","o","r","t"," ","b","y"," ","t","i","e","r">>

q_weather == <<"w","e","a","t","h","e","r">>

q_score == <<"s","c","o","r","e","s">>

q_category ==
    <<"s","h","o","w"," ","d","i","s","t","r","i","b","u","t","i","o","n",
     " ","b","y"," ","c","a","t","e","g","o","r","y">>

q_distribution == <<"D","i","s","t","r","i","b","u","t","i","o","n">>

q_time == <<"O","v","e","r"," ","T","i","m","e">>

q_risk_revenue ==
    <<"r","e","v","e","n","u","e"," ","a","t"," ","R","I","S","K">>

q_churned == <<"C","h","u","r","n","e","d">>

q_upsell == <<"U","p","s","e","l","l">>

q_support_issues ==
    <<"W","h","a","t"," ","a","r","e"," ","t","h","e"," ","m","o","s","t",
     " ","c","o","m","m","o","n"," ","s","u","p","p","o","r","t"," ","i",
     "s","s","u","e","s","?">>

q_correlation == <<"C","o","r","r","e","l","a","t","i","o","n">>

q_trends_category ==
    <<"S","h","o","w"," ","p","u","r","c","h","a","s","e"," ","t","r","e",
      "n","d","s"," ","b","y"," ","p","r","o","d","u","c","t"," ","c","a",
      "t","e","g","o","r","y">>

q_tier_risk == <<"R","i","s","k"," ","b","y"," ","t","i","e","r">>

Questions ==
    {q_churn, q_revenue, q_support, q_weather, q_score, <<>>, q_category,
     q_distribution, q_time, q_risk_revenue, q_churned, q_upsell, q_support_issues,
     q_correlation, q_trends_category, q_tier_risk}

CustomerIds == {PyNone, PyStr(<<>>), PyStr(<<"C","1">>)}

Errors == {<<"Timeout">>, <<"ConnectionError">>}

col_date == <<"d","a","t","e">>

col_amount == <<"a","m","o","u","n","t">>

col_tier == <<"t","i","e","r">>

col_visits == <<"v","i","s","i","t","s">>

(* n rows with a temporal and a numeric column *)
rows_trend(n) ==
    PyList([i \in 1..n |-> PyDict(<<KV(col_date, PyStr(<<"day", Digits[i + 1]>>)),
                                    KV(col_amount, PyInt(10 * i))>>)])

(* n rows with a text and two numeric columns; the last row lacks one key *)
rows_tier(n) ==
    PyList([i \in 1..n |->
              IF i = n /\ n > 1
              THEN PyDict(<<KV(col_tier, S("gold")), KV(col_amount, PyInt(i))>>)
              ELSE PyDict(<<KV(col_tier, S("silver")), KV(col_amount, PyInt(i)),
                            KV(col_visits, PyInt(i + 1))>>)])

Tables == {rows_trend(n) : n \in 1..MaxRows} \cup {rows_tier(n) : n \in 1..MaxRows}

(* n rows with two numeric columns and no other *)
rows_nums(n) ==
    PyList([i \in 1..n |-> PyDict(<<KV(col_amount, PyInt(i)),
                                    KV(col_visits, PyInt(i + 1))>>)])

(* n rows with the one text column c *)
rows_single(c, n) == PyList([i \in 1..n |-> PyDict(<<KV(c, S("gold"))>>)])

col_timestamp == <<"t","i","m","e","s","t","a","m","p">>

(* n rows with a numeric column named as a time, before another numeric one *)
rows_stamp(n) ==
    PyList([i \in 1..n |-> PyDict(<<KV(col_timestamp, PyInt(100 + i)),
                                    KV(col_amount, PyInt(10 * i))>>)])

(* n rows of one group: a text column of one value, and a numeric column *)
rows_group(n) ==
    PyList([i \in 1..n |-> PyDict(<<KV(col_tier, S("gold")),
                                    KV(col_amount, PyInt(i))>>)])

(* n rows with a date text, a group and a numeric column *)
rows_dated_group(n) ==
    PyList([i \in 1..n |-> PyDict(<<KV(col_date, PyStr(<<"day", Digits[i + 1]>>)),
                                    KV(col_tier, S("gold")),
                                    KV(col_amount, PyInt(i))>>)])

col_time == <<"T","i","m","e">>

(* n rows with two temporal columns of texts between two numeric columns *)
rows_mixed(n) ==
    PyList([i \in 1..n |-> PyDict(<<KV(col_visits, PyInt(i)),
                                    KV(col_time, PyStr(<<"0", Digits[i + 1], "h">>)),
                                    KV(col_date, PyStr(<<"day", Digits[i + 1]>>)),
                                    KV(col_amount, PyInt(10 * i))>>)])

col_lifetime_value ==
    <<"l","i","f","e","t","i","m","e","_","v","a","l","u","e">>

(* n rows with a text column and a numeric column whose name holds "time" *)
rows_ltv(n) ==
    PyList([i \in 1..n |-> PyDict(<<KV(col_tier, S("gold")),
                                    KV(col_lifetime_value, PyInt(100 * i))>>)])

(* tables of further shapes, tables at and above the row count that turns  *)
(* a pie into a bar chart, and a single record given as data               *)
ShapeTables ==
    UNION {{rows_nums(n), rows_single(col_tier, n), rows_single(col_date, n),
            rows_stamp(n), rows_group(n), rows_dated_group(n), rows_mixed(n),
            rows_ltv(n)}
           : n \in 1..MaxRows}
    \cup {rows_group(PieMaxRows - 1), rows_group(PieMaxRows), rows_group(PieMaxRows + 1)}
    \cup {PyDict(<<KV(col_tier, S("gold"))>>)}

msg_hi == <<"H","i">>

explicit_chart == PyDict(<<KV(<<"type">>, S("pie")), KV(<<"x">>, PyStr(col_tier))>>)

Msg(m) == KV(<<"message">>, m)

Data(d) == KV(<<"data">>, d)

Chart(c) == KV(<<"chart">>, c)

(* the structured payloads: with and without message, data and chart *)
Maps ==
    {PyDict(<<Msg(PyStr(msg_hi))>>),
     PyDict(<<Msg(PyStr(<<"s","a","y"," ","\"","h","i","\"">>))>>),
     PyDict(<<Msg(PyStr(<<>>))>>),
     PyDict(<<Msg(PyStr(<<" ">>)), Data(PyNone)>>),
     PyDict(<<Msg(PyInt(7))>>),
     PyDict(<<Msg(PyNone)>>),
     PyDict(<<>>),
     PyDict(<<Msg(PyStr(msg_hi)), Chart(explicit_chart)>>),
     PyDict(<<Chart(explicit_chart)>>),
     PyDict(<<Msg(PyStr(msg_hi)), Data(PyInt(5))>>),
     PyDict(<<Msg(PyStr(msg_hi)), Data(PyStr(<<"n","o","n","e">>))>>),
     PyDict(<<Msg(PyStr(msg_hi)), Data(PyList(<<PyInt(1), PyInt(2)>>))>>),
     PyDict(<<Msg(PyStr(msg_hi)), Data(PyList(<<>>))>>),
     PyDict(<<Data(PyDict(<<KV(col_tier, S("gold")), KV(col_amount, PyInt(3))>>)),
              Msg(PyStr(msg_hi))>>)}
    \cup {PyDict(<<Msg(PyStr(msg_hi)), Data(d)>>) : d \in Tables}
    \cup {PyDict(<<Data(d)>>) : d \in Tables}
    \cup {PyDict(<<Msg(PyStr(msg_hi)), Data(d), Chart(explicit_chart)>>) : d \in Tables}

(* texts that are the JSON encoding of a structured payload *)
JsonTexts == {PyStr(JsonEncode(m)) : m \in Maps}

(* JSON texts that lost their last characters *)
CutTexts ==
    {PyStr(SubSeq(t.s, 1, Len(t.s) - k)) : t \in JsonTexts, k \in 1..MaxCut}

(* texts that are JSON but no object, plain texts, and blank texts *)
OtherTexts ==
    {PyStr(JsonEncode(PyList(<<PyInt(1), PyInt(2)>>))),
     PyStr(JsonEncode(PyInt(5))),
     PyStr(JsonEncode(PyStr(msg_hi))),
     PyStr(JsonEncode(PyNone)),
     PyStr(JsonEncode(PyBool(TRUE))),
     PyStr(<<"H","i"," ","t","h","e","r","e">>),
     PyStr(<<"0","5">>),
     PyStr(<<>>),
     PyStr(<<" ">>)}

(* payloads that are neither text nor a map *)
OtherValues ==
    {PyNone, PyInt(42), PyBool(FALSE), PyList(<<PyInt(1)>>),
     PyList(<<PyStr(msg_hi), PyNone>>), PyList(<<>>)}

(* structured payloads whose data is a table of a further shape *)
ShapeMaps == {PyDict(<<Msg(PyStr(msg_hi)), Data(d)>>) : d \in ShapeTables}

RawValues ==
    Maps \cup JsonTexts \cup CutTexts \cup OtherTexts \cup OtherValues \cup ShapeMaps

(* what conn.query returns: an empty frame, or a frame whose first row     *)
(* holds the payload in its RESPONSE column                                *)
EmptyFrame == [empty |-> TRUE]

Frame(v) == [empty |-> FALSE, RESPONSE |-> v]

NoValue == [t |-> "unset"]

(* json.loads of each text of the model, evaluated once *)
LoadsOf == [s \in {v.s : v \in {w \in RawValues : w.t = "str"}} |-> json_loads(s)]

(* json.loads(s) *)
loads(s) == IF s \in DOMAIN LoadsOf THEN LoadsOf[s] ELSE json_loads(s)

---------------------------------------------------------------------------
(* Responses.  A response is the Python dict the code returns: a function  *)
(* from its keys to values.                                                *)

Response(message, data, chart) == [message |-> message, data |-> data, chart |-> chart]

(* an exception leaving a function *)
Raised == [raised |-> TRUE]

IsRaised(r) == "raised" \in DOMAIN r

EmptyResultMessage == <<"I'm sorry, I couldn't process your request at this time.">>

(* the try body with a text branch that builds no chart *)
parse_ai_response_body_text_nochart(response_data, context) ==
    IF response_data.t = "str"
    THEN LET parsed == loads(response_data.s) IN
         IF ~parsed.ok THEN Response(response_data, PyNone, PyNone)
         ELSE IF parsed.v.t # "dict" THEN Raised
         ELSE Response(DictGet(parsed.v, <<"message">>, response_data),
                       DictGet(parsed.v, <<"data">>, PyNone),
                       PyNone)
    ELSE IF response_data.t = "dict"
    THEN Response(DictGet(response_data, <<"message">>, PyStr(str(response_data))),
                  DictGet(response_data, <<"data">>, PyNone),
                  create_chart_if_needed(DictGet(response_data, <<"data">>, PyNone), context))
    ELSE Response(PyStr(str(response_data)), PyNone, PyNone)

(* the try body without the inner except: a JSONDecodeError reaches the    *)
(* outer except                                                            *)
parse_ai_response_body_no_decode_except(response_data, context) ==
    IF response_data.t = "str"
    THEN LET parsed == loads(response_data.s) IN
         IF ~parsed.ok THEN Raised
         ELSE IF parsed.v.t # "dict" THEN Raised
         ELSE Response(DictGet(parsed.v, <<"message">>, response_data),
                       DictGet(parsed.v, <<"data">>, PyNone),
                       create_chart_if_needed(DictGet(parsed.v, <<"data">>, PyNone), context))
    ELSE IF response_data.t = "dict"
    THEN Response(DictGet(response_data, <<"message">>, PyStr(str(response_data))),
                  DictGet(response_data, <<"data">>, PyNone),
                  create_chart_if_needed(DictGet(response_data, <<"data">>, PyNone), context))
    ELSE Response(PyStr(str(response_data)), PyNone, PyNone)

(* message or the apology: what `m.get("message") or apology` would give *)
MessageOrApology(m) ==
    LET msg == DictGet(m, <<"message">>, PyNone) IN
    IF msg.t = "str" /\ ~IsBlank(msg.s) THEN msg ELSE PyStr(EmptyResultMessage)

(* the try body with the apology as the default of an absent or blank message *)
parse_ai_response_body_apology(response_data, context) ==
    IF response_data.t = "str"
    THEN LET parsed == loads(response_data.s) IN
         IF ~parsed.ok THEN Response(response_data, PyNone, PyNone)
         ELSE IF parsed.v.t # "dict" THEN Raised
         ELSE Response(MessageOrApology(parsed.v),
                       DictGet(parsed.v, <<"data">>, PyNone),
                       create_chart_if_needed(DictGet(parsed.v, <<"data">>, PyNone), context))
    ELSE IF response_data.t = "dict"
    THEN Response(MessageOrApology(response_data),
                  DictGet(response_data, <<"data">>, PyNone),
                  create_chart_if_needed(DictGet(response_data, <<"data">>, PyNone), context))
    ELSE Response(PyStr(str(response_data)), PyNone, PyNone)

(* the chart of a payload that prefers the payload's own chart field *)
ChartOrDerived(m, context) ==
    IF HasKey(m, <<"chart">>) THEN DictGet(m, <<"chart">>, PyNone)
    ELSE create_chart_if_needed(DictGet(m, <<"data">>, PyNone), context)

(* the try body with the payload's own chart used as it is *)
parse_ai_response_body_explicit_chart(response_data, context) ==
    IF response_data.t = "str"
    THEN LET parsed == loads(response_data.s) IN
         IF ~parsed.ok THEN Response(response_data, PyNone, PyNone)
         ELSE IF parsed.v.t # "dict" THEN Raised
         ELSE Response(DictGet(parsed.v, <<"message">>, response_data),
                       DictGet(parsed.v, <<"data">>, PyNone),
                       ChartOrDerived(parsed.v, context))
    ELSE IF response_data.t = "dict"
    THEN Response(DictGet(response_data, <<"message">>, PyStr(str(response_data))),
                  DictGet(response_data, <<"data">>, PyNone),
                  ChartOrDerived(response_data, context))
    ELSE Response(PyStr(str(response_data)), PyNone, PyNone)

(* the try body with data that is no record and no list of records         *)
(* replaced by None                                                        *)
parse_ai_response_body_coerce(response_data, context) ==
    LET coerce(d) ==
            IF \/ d.t = "dict" /\ d.d # <<>>
               \/ d.t = "list" /\ d.a # <<>> /\ \A i \in DOMAIN d.a : d.a[i].t = "dict"
            THEN d ELSE PyNone
    IN
    IF response_data.t = "str"
    THEN LET parsed == loads(response_data.s) IN
         IF ~parsed.ok THEN Response(response_data, PyNone, PyNone)
         ELSE IF parsed.v.t # "dict" THEN Raised
         ELSE Response(DictGet(parsed.v, <<"message">>, response_data),
                       coerce(DictGet(parsed.v, <<"data">>, PyNone)),
                       create_chart_if_needed(DictGet(parsed.v, <<"data">>, PyNone), context))
    ELSE IF response_data.t = "dict"
    THEN Response(DictGet(response_data, <<"message">>, PyStr(str(response_data))),
                  coerce(DictGet(response_data, <<"data">>, PyNone)),
                  create_chart_if_needed(DictGet(response_data, <<"data">>, PyNone), context))
    ELSE Response(PyStr(str(response_data)), PyNone, PyNone)

(* the try body of _parse_ai_response: parsed.get on a JSON value that is  *)
(* no object raises AttributeError, which only the outer except catches    *)
parse_ai_response_body(response_data, context) ==
    IF response_data.t = "str"
    THEN LET parsed == loads(response_data.s) IN
         IF ~parsed.ok THEN Response(response_data, PyNone, PyNone)
         ELSE IF parsed.v.t # "dict" THEN Raised
         ELSE Response(DictGet(parsed.v, <<"message">>, response_data),
                       DictGet(parsed.v, <<"data">>, PyNone),
                       create_chart_if_needed(DictGet(parsed.v, <<"data">>, PyNone), context))
    ELSE IF response_data.t = "dict"
    THEN Response(DictGet(response_data, <<"message">>, PyStr(str(response_data))),
                  DictGet(response_data, <<"data">>, PyNone),
                  create_chart_if_needed(DictGet(response_data, <<"data">>, PyNone), context))
    ELSE Response(PyStr(str(response_data)), PyNone, PyNone)

(* _parse_ai_response without its outer except *)
parse_ai_response_uncaught(response_data, context) ==
    parse_ai_response_body(response_data, context)

(* _parse_ai_response: the body, and the outer except's response *)
parse_ai_response(response_data, context) ==
    LET r == parse_ai_response_body(response_data, context) IN
    IF IsRaised(r)
    THEN Response(PyStr(<<"Generated response for: ">> \o context), PyNone, PyNone)
    ELSE r

---------------------------------------------------------------------------
(* The fallback knowledge base *)

Row3(k1, v1, k2, v2, k3, v3) == PyDict(<<KV(k1, v1), KV(k2, v2), KV(k3, v3)>>)

(* the churn entry with its rows in another order and another count *)
fallback_churn_reordered ==
    [message |-> PyStr(<<"Based on our analysis, customers with high ", "c","h","u","r","n",
                         " risk typically show: decreased login frequency, support ticket escalations, and low satisfaction scores. I recommend immediate outreach for customers with risk scores above 0.7.">>),
     data |-> PyList(<<
        Row3(<<"Risk Level">>, S("Low"), <<"Count">>, PyInt(15), <<"Action">>, S("Standard nurturing")),
        Row3(<<"Risk Level">>, S("Medium"), <<"Count">>, PyInt(8), <<"Action">>, S("Proactive engagement")),
        Row3(<<"Risk Level">>, S("High"), <<"Count">>, PyInt(13), <<"Action">>, S("Immediate outreach"))>>)]

fallback_churn ==
    [message |-> PyStr(<<"Based on our analysis, customers with high ", "c","h","u","r","n",
                         " risk typically show: decreased login frequency, support ticket escalations, and low satisfaction scores. I recommend immediate outreach for customers with risk scores above 0.7.">>),
     data |-> PyList(<<
        Row3(<<"Risk Level">>, S("High"), <<"Count">>, PyInt(3), <<"Action">>, S("Immediate outreach")),
        Row3(<<"Risk Level">>, S("Medium"), <<"Count">>, PyInt(8), <<"Action">>, S("Proactive engagement")),
        Row3(<<"Risk Level">>, S("Low"), <<"Count">>, PyInt(15), <<"Action">>, S("Standard nurturing"))>>)]

fallback_revenue ==
    [message |-> PyStr(<<"R","e","v","e","n","u","e",
                         " opportunities include: upselling premium features to gold customers, cross-selling complementary products, and expanding successful pilot programs.">>),
     data |-> PyList(<<
        Row3(<<"Opportunity">>, S("Premium Upsell"), <<"Potential">>, S("$45,000"), <<"Probability">>, S("70%")),
        Row3(<<"Opportunity">>, S("Cross-sell"), <<"Potential">>, S("$23,000"), <<"Probability">>, S("85%")),
        Row3(<<"Opportunity">>, S("Expansion"), <<"Potential">>, S("$67,000"), <<"Probability">>, S("60%"))>>)]

fallback_support ==
    [message |-> PyStr(<<"S","u","p","p","o","r","t",
                         " trends show billing issues as the top category, followed by shipping delays. Average resolution time is 18 hours with 4.2/5 satisfaction.">>),
     data |-> PyList(<<
        Row3(<<"Issue Type">>, S("Billing"), <<"Count">>, PyInt(12), <<"Avg Resolution">>, S("24 hours")),
        Row3(<<"Issue Type">>, S("Shipping"), <<"Count">>, PyInt(8), <<"Avg Resolution">>, S("12 hours")),
        Row3(<<"Issue Type">>, S("Technical"), <<"Count">>, PyInt(5), <<"Avg Resolution">>, S("36 hours"))>>)]

churn_words == {<<"c","h","u","r","n">>, <<"r","i","s","k">>, <<"l","e","a","v","i","n","g">>}

revenue_words ==
    {<<"r","e","v","e","n","u","e">>, <<"m","o","n","e","y">>,
     <<"o","p","p","o","r","t","u","n","i","t","y">>, <<"u","p","s","e","l","l">>}

support_words ==
    {<<"s","u","p","p","o","r","t">>, <<"t","i","c","k","e","t">>,
     <<"i","s","s","u","e">>, <<"p","r","o","b","l","e","m">>}

(* the response of the final else written like the entries of the table,   *)
(* without a chart key                                                     *)
generic_fallback_no_chart(question) ==
    [message |-> PyStr(<<"I understand you're asking about: ">> \o question
                       \o <<". While I'm currently connecting to our AI services, I can help you explore customer data through the dashboard and analytics views.">>),
     data |-> PyNone]

(* the response of the final else: it quotes the question *)
generic_fallback(question) ==
    Response(PyStr(<<"I understand you're asking about: ">> \o question
                   \o <<". While I'm currently connecting to our AI services, I can help you explore customer data through the dashboard and analytics views.">>),
             PyNone, PyNone)

(* a lookup that never finds an entry *)
get_fallback_response_generic(question, customer_id) == generic_fallback(question)

(* the keyword chain with the revenue entry tried before the churn entry *)
get_fallback_response_revenue_first(question, customer_id) ==
    LET question_lower == Lower(question) IN
    IF ContainsAny(question_lower, revenue_words) THEN fallback_revenue
    ELSE IF ContainsAny(question_lower, churn_words) THEN fallback_churn
    ELSE IF ContainsAny(question_lower, support_words) THEN fallback_support
    ELSE generic_fallback(question)

(* the keyword chain without its support branch *)
get_fallback_response_no_support(question, customer_id) ==
    LET question_lower == Lower(question) IN
    IF ContainsAny(question_lower, churn_words) THEN fallback_churn
    ELSE IF ContainsAny(question_lower, revenue_words) THEN fallback_revenue
    ELSE generic_fallback(question)

(* _get_fallback_response: the keyword chain over question.lower() *)
get_fallback_response(question, customer_id) ==
    LET question_lower == Lower(question) IN
    IF ContainsAny(question_lower, churn_words) THEN fallback_churn
    ELSE IF ContainsAny(question_lower, revenue_words) THEN fallback_revenue
    ELSE IF ContainsAny(question_lower, support_words) THEN fallback_support
    ELSE generic_fallback(question)

(* whether the chain returns an entry of the table (not the final else) *)
fallback_matches(question) ==
    ContainsAny(Lower(question), churn_words \cup revenue_words \cup support_words)

---------------------------------------------------------------------------
(* One session's calls of CortexClient.ask_ai *)

VARIABLES
    pc,           \* where the call stands: Idle (no call running), Dispatching
                  \* (in the try, before conn.query), Success (the query returned),
                  \* Failed (in the except), FallbackLookup (in
                  \* _get_fallback_response), FallbackHit, FallbackMiss (at its return)
    question,     \* the call's question
    customer_id,  \* the call's customer_id
    queries,      \* the conn.query calls of this call: the function and its params
    result,       \* what conn.query returned
    error,        \* the exception conn.query raised
    st_errors,    \* the texts this call handed to st.error
    lookups,      \* how often this call entered _get_fallback_response
    response,     \* what the call returned
    produced,     \* how many responses this call returned
    sessions,     \* several sessions calling at once: each one's call and the
                  \* response its caller holds
    heap,         \* the fallback_responses dicts those calls built, by identity
    chat_history, \* st.session_state.chat_history of the chat page
    pending_query,\* st.session_state.pending_query, NoValue when the attribute is unset
    chat_pc,      \* where the chat page's script run stands: Waiting (between runs),
                  \* TypedAsk and PendingAsk (user record appended, before ask_ai),
                  \* TypedShown (assistant record appended, before st.rerun)
    chat_query,   \* the question of the run: user_input or query
    setup_pc,     \* where DemoManager stands: Menu, a step of complete_setup and
                  \* its position in the step, Report
    attempts,     \* the step methods complete_setup called, in call order
    step_ok,      \* what each called step method returned
    failed_steps, \* complete_setup's failed_steps
    executed,     \* the SQL files handed to execute_sql_file, in order
    printed       \* what complete_setup printed after its loop

vars == <<pc, question, customer_id, queries, result, error, st_errors, lookups,
          response, produced, sessions, heap,
          chat_history, pending_query, chat_pc, chat_query,
          setup_pc, attempts, step_ok, failed_steps, executed, printed>>

chat_vars == <<chat_history, pending_query, chat_pc, chat_query>>

setup_vars == <<setup_pc, attempts, step_ok, failed_steps, executed, printed>>

(* the sessions that call at once, each with a CortexClient of its own *)
Sessions == {"s1", "s2"}

(* a session that has not called yet: where its call stands, the call's    *)
(* arguments, what conn.query did, the fallback_responses dict the call    *)
(* built, the response object its caller holds, the response as it was     *)
(* when the call returned, and the calls made so far                       *)
IdleSession ==
    [pc |-> "Idle", question |-> <<>>, customer_id |-> PyNone, outcome |-> NoValue,
     table |-> 0, held |-> NoValue, returned |-> NoValue, calls |-> 0]

Init ==
    /\ pc = "Idle"
    /\ question = <<>>
    /\ customer_id = PyNone
    /\ queries = <<>>
    /\ result = NoValue
    /\ error = NoValue
    /\ st_errors = <<>>
    /\ lookups = 0
    /\ response = NoValue
    /\ produced = 0
    /\ sessions = [s \in Sessions |-> IdleSession]
    /\ heap = <<>>
    /\ chat_history = <<>>
    /\ pending_query = NoValue
    /\ chat_pc = "Waiting"
    /\ chat_query = NoValue
    /\ setup_pc = [step |-> "Menu", at |-> 0]
    /\ attempts = <<>>
    /\ step_ok = <<>>
    /\ failed_steps = <<>>
    /\ executed = <<>>
    /\ printed = <<>>

(* the caller invokes ask_ai(q, c) *)
Ask(q, c) ==
    /\ pc = "Idle"
    /\ pc' = "Dispatching"
    /\ question' = q
    /\ customer_id' = c
    /\ queries' = <<>>
    /\ result' = NoValue
    /\ error' = NoValue
    /\ st_errors' = <<>>
    /\ lookups' = 0
    /\ response' = NoValue
    /\ produced' = 0
    /\ UNCHANGED <<sessions, heap, chat_vars, setup_vars>>

(* the choice made by `is not None` instead of truthiness *)
query_issued_not_none(q, c) ==
    IF c # PyNone
    THEN [fn |-> "analyze_customer", params |-> <<c>>]
    ELSE [fn |-> "ask_customer_360_ai", params |-> <<PyStr(q)>>]

(* the conn.query call the if chooses: analyze_customer with the customer  *)
(* id alone, or ask_customer_360_ai with the question                      *)
query_issued(q, c) ==
    IF Truthy(c)
    THEN [fn |-> "analyze_customer", params |-> <<c>>]
    ELSE [fn |-> "ask_customer_360_ai", params |-> <<PyStr(q)>>]

(* conn.query returns a frame.  Both statements select one expression "as  *)
(* response", so a frame with a row always has the RESPONSE column and     *)
(* reading it cannot raise.                                                *)
QueryReturns(frame) ==
    /\ pc = "Dispatching"
    /\ queries' = Append(queries, query_issued(question, customer_id))
    /\ result' = frame
    /\ pc' = "Success"
    /\ UNCHANGED <<question, customer_id, error, st_errors, lookups, response, produced>>
    /\ UNCHANGED <<sessions, heap, chat_vars, setup_vars>>

(* conn.query raises: control passes to the except *)
QueryRaises(e) ==
    /\ pc = "Dispatching"
    /\ queries' = Append(queries, query_issued(question, customer_id))
    /\ error' = PyStr(e)
    /\ pc' = "Failed"
    /\ UNCHANGED <<question, customer_id, result, st_errors, lookups, response, produced>>
    /\ UNCHANGED <<sessions, heap, chat_vars, setup_vars>>

(* an empty frame answered from the knowledge base *)
result_response_lookup(frame, q) ==
    IF ~frame.empty
    THEN parse_ai_response(frame.RESPONSE, q)
    ELSE get_fallback_response(q, PyNone)

(* what ask_ai computes from the frame the query returned *)
result_response(frame, q) ==
    IF ~frame.empty
    THEN parse_ai_response(frame.RESPONSE, q)
    ELSE Response(PyStr(EmptyResultMessage), PyNone, PyNone)

(* an empty frame sent on to the fallback lookup *)
ProcessResult_to_lookup ==
    /\ pc = "Success"
    /\ IF result.empty
       THEN /\ pc' = "FallbackLookup"
            /\ UNCHANGED <<response, produced>>
       ELSE /\ pc' = "Idle"
            /\ response' = result_response(result, question)
            /\ produced' = produced + 1
    /\ UNCHANGED <<question, customer_id, queries, result, error, st_errors, lookups>>
    /\ UNCHANGED <<sessions, heap, chat_vars, setup_vars>>

(* the rest of the try: the response is returned, or (were it to raise)    *)
(* the except takes over                                                   *)
ProcessResult ==
    /\ pc = "Success"
    /\ LET r == result_response(result, question) IN
       IF IsRaised(r)
       THEN /\ pc' = "Failed"
            /\ error' = PyStr(<<"AttributeError">>)
            /\ UNCHANGED <<response, produced>>
       ELSE /\ pc' = "Idle"
            /\ response' = r
            /\ produced' = produced + 1
            /\ UNCHANGED error
    /\ UNCHANGED <<question, customer_id, queries, result, st_errors, lookups>>
    /\ UNCHANGED <<sessions, heap, chat_vars, setup_vars>>

(* an except that tries the query once more before falling back *)
HandleError_retry ==
    /\ pc = "Failed"
    /\ st_errors' = Append(st_errors, <<"Error communicating with AI: ">> \o error.s)
    /\ IF Len(queries) < 2
       THEN pc' = "Dispatching" /\ UNCHANGED lookups
       ELSE pc' = "FallbackLookup" /\ lookups' = lookups + 1
    /\ UNCHANGED <<question, customer_id, queries, result, error, response, produced>>
    /\ UNCHANGED <<sessions, heap, chat_vars, setup_vars>>

(* the except: st.error shows the error, then _get_fallback_response is entered *)
HandleError ==
    /\ pc = "Failed"
    /\ st_errors' = Append(st_errors, <<"Error communicating with AI: ">> \o error.s)
    /\ lookups' = lookups + 1
    /\ pc' = "FallbackLookup"
    /\ UNCHANGED <<question, customer_id, queries, result, error, response, produced>>
    /\ UNCHANGED <<sessions, heap, chat_vars, setup_vars>>

(* the keyword chain picks an entry of the table or the final else *)
FallbackLookup ==
    /\ pc = "FallbackLookup"
    /\ pc' = IF fallback_matches(question) THEN "FallbackHit" ELSE "FallbackMiss"
    /\ UNCHANGED <<question, customer_id, queries, result, error, st_errors, lookups,
                   response, produced>>
    /\ UNCHANGED <<sessions, heap, chat_vars, setup_vars>>

(* _get_fallback_response returns and ask_ai returns its value *)
ReturnFallback ==
    /\ pc \in {"FallbackHit", "FallbackMiss"}
    /\ response' = get_fallback_response(question, customer_id)
    /\ produced' = produced + 1
    /\ pc' = "Idle"
    /\ UNCHANGED <<question, customer_id, queries, result, error, st_errors, lookups>>
    /\ UNCHANGED <<sessions, heap, chat_vars, setup_vars>>

(* the steps of a running call *)
Step ==
    \/ \E frame \in {EmptyFrame} \cup {Frame(v) : v \in RawValues} : QueryReturns(frame)
    \/ \E e \in Errors : QueryRaises(e)
    \/ ProcessResult
    \/ HandleError
    \/ FallbackLookup
    \/ ReturnFallback

Next ==
    \/ \E q \in Questions, c \in CustomerIds : Ask(q, c)
    \/ Step

Spec == Init /\ [][Next]_vars

(* A call that started runs to its return: the query is a blocking call    *)
(* under the caller's timeout, and the rest is straight-line code.  Whether *)
(* a caller asks at all is left open.                                      *)
FairSpec == Spec /\ WF_vars(Step)

---------------------------------------------------------------------------
(* The chat page: render_ai_assistant's script runs over the session's     *)
(* chat_history.  One run handles one interaction: a question typed into   *)
(* st.chat_input, a click on a suggested query (which sets pending_query   *)
(* and reruns, the next run then handling it), or a click on the clear     *)
(* button.  Display calls write to the page and leave the session state    *)
(* alone; records are kept without their timestamp.                        *)

(* the most submissions between two clears of the history *)
MaxTurns == 2

(* questions typed into st.chat_input *)
TypedQuestions == {q_churn, q_weather}

(* the suggested queries whose buttons are clicked *)
suggested_queries == {q_support_issues, q_trends_category}

(* what conn.query returns to the page's questions *)
ChatFrames ==
    {EmptyFrame,
     Frame(PyDict(<<Msg(PyNone)>>)),
     Frame(PyDict(<<Msg(PyStr(msg_hi)), Data(rows_tier(1))>>))}

(* what ask_ai returns for a question: the response of a payload, of an    *)
(* empty result, or of the fallback lookup                                 *)
ChatAnswers(q) ==
    {result_response(frame, q) : frame \in ChatFrames}
        \cup {get_fallback_response(q, PyNone)}

(* the texts of the exceptions the inner except catches *)
ChatErrors == {<<"'cortex_client'">>}

ApologyContent ==
    <<"I apologize, but I encountered an issue processing your request.">>

(* safe_get_str: pd is no global of the module, so the test is `is None` *)
safe_get_str(value, default) == IF value = PyNone THEN default ELSE str(value)

(* the user's record *)
user_record(content) == [role |-> "user", content |-> content]

(* ai_message: data and chart are keys only when the response has them     *)
(* and they are not None                                                   *)
ai_message(r) ==
    LET content == safe_get_str(IF "message" \in DOMAIN r THEN r.message ELSE PyStr(<<>>),
                                ApologyContent)
        has_data == "data" \in DOMAIN r /\ r.data # PyNone
        has_chart == "chart" \in DOMAIN r /\ r.chart # PyNone
    IN  IF has_data /\ has_chart
        THEN [role |-> "assistant", content |-> content, data |-> r.data, chart |-> r.chart]
        ELSE IF has_data
        THEN [role |-> "assistant", content |-> content, data |-> r.data]
        ELSE IF has_chart
        THEN [role |-> "assistant", content |-> content, chart |-> r.chart]
        ELSE [role |-> "assistant", content |-> content]

(* an inner except that shows the error and keeps it out of the history *)
ask_raised_unrecorded(history, e) == history

(* the inner except: the error becomes the assistant's record *)
ask_raised(history, e) ==
    Append(history,
           [role |-> "assistant", content |-> <<"I encountered an error: ">> \o e])

(* a question typed into st.chat_input: the run appends the user's record  *)
(* and shows it                                                            *)
SubmitTyped(q) ==
    /\ chat_pc = "Waiting"
    /\ pending_query = NoValue
    /\ Len(chat_history) < 2 * MaxTurns
    /\ chat_history' = Append(chat_history, user_record(q))
    /\ chat_query' = q
    /\ chat_pc' = "TypedAsk"
    /\ UNCHANGED pending_query

(* ask_ai returns: the assistant's record is appended, then shown *)
TypedAskReturns(r) ==
    /\ chat_pc = "TypedAsk"
    /\ chat_history' = Append(chat_history, ai_message(r))
    /\ chat_pc' = "TypedShown"
    /\ UNCHANGED <<pending_query, chat_query>>

(* ask_ai raises: the inner except *)
TypedAskRaises(e) ==
    /\ chat_pc = "TypedAsk"
    /\ chat_history' = ask_raised(chat_history, e)
    /\ chat_pc' = "TypedShown"
    /\ UNCHANGED <<pending_query, chat_query>>

(* st.rerun() ends the run; its exception is no Exception, so the outer    *)
(* except lets it pass                                                     *)
TypedRerun ==
    /\ chat_pc = "TypedShown"
    /\ chat_pc' = "Waiting"
    /\ chat_query' = NoValue
    /\ UNCHANGED <<chat_history, pending_query>>

(* a click on a suggested query: pending_query is set and the run ends in  *)
(* st.rerun()                                                              *)
ClickSuggested(q) ==
    /\ chat_pc = "Waiting"
    /\ pending_query = NoValue
    /\ Len(chat_history) < 2 * MaxTurns
    /\ pending_query' = q
    /\ UNCHANGED <<chat_history, chat_pc, chat_query>>

(* the run after the click: the pending query is taken, the attribute      *)
(* deleted and the user's record appended                                  *)
HandlePending ==
    /\ chat_pc = "Waiting"
    /\ pending_query # NoValue
    /\ chat_query' = pending_query
    /\ pending_query' = NoValue
    /\ chat_history' = Append(chat_history, user_record(pending_query))
    /\ chat_pc' = "PendingAsk"

PendingAskReturns(r) ==
    /\ chat_pc = "PendingAsk"
    /\ chat_history' = Append(chat_history, ai_message(r))
    /\ chat_pc' = "Waiting"
    /\ chat_query' = NoValue
    /\ UNCHANGED pending_query

PendingAskRaises(e) ==
    /\ chat_pc = "PendingAsk"
    /\ chat_history' = ask_raised(chat_history, e)
    /\ chat_pc' = "Waiting"
    /\ chat_query' = NoValue
    /\ UNCHANGED pending_query

(* the clear button *)
ClearChat ==
    /\ chat_pc = "Waiting"
    /\ pending_query = NoValue
    /\ chat_history' = <<>>
    /\ UNCHANGED <<pending_query, chat_pc, chat_query>>

ChatNext ==
    /\ \/ \E q \in TypedQuestions : SubmitTyped(q)
       \/ chat_pc = "TypedAsk" /\ \E r \in ChatAnswers(chat_query) : TypedAskReturns(r)
       \/ \E e \in ChatErrors : TypedAskRaises(e)
       \/ TypedRerun
       \/ \E q \in suggested_queries : ClickSuggested(q)
       \/ HandlePending
       \/ chat_pc = "PendingAsk" /\ \E r \in ChatAnswers(chat_query) : PendingAskReturns(r)
       \/ \E e \in ChatErrors : PendingAskRaises(e)
       \/ ClearChat
    /\ UNCHANGED <<pc, question, customer_id, queries, result, error, st_errors,
                   lookups, response, produced, sessions, heap>>
    /\ UNCHANGED setup_vars

ChatSpec == Init /\ [][ChatNext]_vars

---------------------------------------------------------------------------
(* DemoManager.complete_setup and the four step methods it calls.  A step  *)
(* method prompts, checks files and hands SQL files to execute_sql_file;   *)
(* each of these is a position of setup_pc.                                *)

At(step, n) == [step |-> step, at |-> n]

(* complete_setup's steps: step_name and description, in list order *)
steps ==
    <<[step_name |-> "cleanup", description |-> "Clean up existing demo"],
      [step_name |-> "database", description |-> "Set up database"],
      [step_name |-> "search", description |-> "Set up Cortex Search"],
      [step_name |-> "agent", description |-> "Set up Cortex Agent"]>>

(* setup_database's SQL files, in list order *)
database_files == <<"01_setup_database.sql", "02_create_tables.sql", "03_sample_data.sql">>

(* how execute_sql_file ends: the file is missing, snowsql exits with 0 or *)
(* with another code, times out, or subprocess.run raises                  *)
SqlOutcomes == {"ok", "missing", "failed", "timeout", "raised"}

(* what the user types at a y/N prompt *)
Answers == {<<"y">>, <<"Y">>, <<" ", "y", " ">>, <<"n">>, <<"y", "e", "s">>, <<>>}

(* str.strip() of blanks *)
strip(s) ==
    LET inked == {i \in DOMAIN s : s[i] # " "} IN
    IF inked = {} THEN <<>>
    ELSE SubSeq(s, CHOOSE i \in inked : \A j \in inked : i <= j,
                   CHOOSE i \in inked : \A j \in inked : i >= j)

(* input(...).strip().lower() == 'y' *)
confirmed(answer) == Lower(strip(answer)) = <<"y">>

(* a loop body that forgets a step that returned False *)
record_step_ignored(failed, description, ok) == failed

(* the loop body's if: a step that returned False is appended *)
record_step(failed, description, ok) ==
    IF ok THEN failed ELSE Append(failed, description)

(* the step method returns: the loop body records it and the loop goes on *)
(* to the next step, or ends after the last                                *)
StepReturns(ok) ==
    LET i == Len(attempts) IN
    /\ step_ok' = Append(step_ok, ok)
    /\ failed_steps' = record_step(failed_steps, steps[i].description, ok)
    /\ IF i < Len(steps)
       THEN /\ attempts' = Append(attempts, steps[i + 1].step_name)
            /\ setup_pc' = At(steps[i + 1].step_name, 0)
       ELSE /\ attempts' = attempts
            /\ setup_pc' = At("Report", 0)

(* menu choice 6: complete_setup starts with an empty failed_steps and     *)
(* calls cleanup_demo                                                      *)
ChooseCompleteSetup ==
    /\ setup_pc = At("Menu", 0)
    /\ attempts' = <<steps[1].step_name>>
    /\ setup_pc' = At(steps[1].step_name, 0)
    /\ step_ok' = <<>>
    /\ failed_steps' = <<>>
    /\ executed' = <<>>
    /\ printed' = <<>>

(* cleanup_demo's prompt: anything but y cancels and returns False *)
CleanupConfirm(answer) ==
    /\ setup_pc = At("cleanup", 0)
    /\ IF confirmed(answer)
       THEN /\ setup_pc' = At("cleanup", 1)
            /\ UNCHANGED <<attempts, step_ok, failed_steps>>
       ELSE StepReturns(FALSE)
    /\ UNCHANGED <<executed, printed>>

CleanupSql(o) ==
    /\ setup_pc = At("cleanup", 1)
    /\ executed' = Append(executed, "00_cleanup_demo.sql")
    /\ StepReturns(o = "ok")
    /\ UNCHANGED printed

(* setup_database's loop: the first file that fails ends the step *)
DatabaseSql(o) ==
    /\ setup_pc.step = "database"
    /\ LET i == setup_pc.at + 1 IN
       /\ executed' = Append(executed, database_files[i])
       /\ IF o # "ok" THEN StepReturns(FALSE)
          ELSE IF i < Len(database_files)
          THEN /\ setup_pc' = At("database", i)
               /\ UNCHANGED <<attempts, step_ok, failed_steps>>
          ELSE StepReturns(TRUE)
    /\ UNCHANGED printed

SearchSql(o) ==
    /\ setup_pc = At("search", 0)
    /\ executed' = Append(executed, "04_cortex_search.sql")
    /\ StepReturns(o = "ok")
    /\ UNCHANGED printed

(* setup_cortex_agent: without the semantic model file it returns False *)
AgentCheckModel(exists) ==
    /\ setup_pc = At("agent", 0)
    /\ IF exists
       THEN /\ setup_pc' = At("agent", 1)
            /\ UNCHANGED <<attempts, step_ok, failed_steps>>
       ELSE StepReturns(FALSE)
    /\ UNCHANGED <<executed, printed>>

AgentConfirm(answer) ==
    /\ setup_pc = At("agent", 1)
    /\ IF confirmed(answer)
       THEN /\ setup_pc' = At("agent", 2)
            /\ UNCHANGED <<attempts, step_ok, failed_steps>>
       ELSE StepReturns(FALSE)
    /\ UNCHANGED <<executed, printed>>

AgentSql(o) ==
    /\ setup_pc = At("agent", 2)
    /\ executed' = Append(executed, "06_cortex_agent.sql")
    /\ StepReturns(o = "ok")
    /\ UNCHANGED printed

(* after the loop: the failed steps one by one, or the success line and    *)
(* show_next_steps                                                         *)
Report ==
    /\ setup_pc = At("Report", 0)
    /\ printed' =
         IF failed_steps # <<>>
         THEN <<[kind |-> "warning", text |-> "Some steps failed:"]>>
              \o [i \in DOMAIN failed_steps |-> [kind |-> "error", text |-> failed_steps[i]]]
         ELSE <<[kind |-> "success", text |-> "Complete setup finished successfully!"],
                [kind |-> "header", text |-> "NEXT STEPS"]>>
    /\ setup_pc' = At("Menu", 0)
    /\ UNCHANGED <<attempts, step_ok, failed_steps, executed>>

SetupNext ==
    /\ \/ ChooseCompleteSetup
       \/ \E answer \in Answers : CleanupConfirm(answer)
       \/ \E o \in SqlOutcomes : CleanupSql(o)
       \/ \E o \in SqlOutcomes : DatabaseSql(o)
       \/ \E o \in SqlOutcomes : SearchSql(o)
       \/ \E exists \in BOOLEAN : AgentCheckModel(exists)
       \/ \E answer \in Answers : AgentConfirm(answer)
       \/ \E o \in SqlOutcomes : AgentSql(o)
       \/ Report
    /\ UNCHANGED <<pc, question, customer_id, queries, result, error, st_errors,
                   lookups, response, produced, sessions, heap>>
    /\ UNCHANGED chat_vars

SetupSpec == Init /\ [][SetupNext]_vars

---------------------------------------------------------------------------
(* Properties *)

(* Several sessions calling ask_ai at once.  Python objects are shared by  *)
(* reference: a call returns the entry object of the fallback_responses    *)
(* dict it built, and its caller may change that object in place.          *)

(* the most calls one session makes *)
MaxCalls == 2

SessionQuestions == {q_churn, q_weather}

SessionCustomerIds == {PyNone, PyStr(<<"C","1">>)}

(* what conn.query does: it raises, or returns an empty or a filled frame *)
SessionOutcomes ==
    {[raised |-> TRUE, e |-> <<"Timeout">>],
     [raised |-> FALSE, frame |-> EmptyFrame],
     [raised |-> FALSE, frame |-> Frame(PyDict(<<Msg(PyStr(msg_hi))>>))]}

(* the dict that the literal of _get_fallback_response evaluates to *)
KBTable ==
    [churn |-> fallback_churn, revenue |-> fallback_revenue, support |-> fallback_support]

(* one table object, built once and used by every call *)
fallback_responses_module_level(h) == 1

(* the identity of fallback_responses: the literal is evaluated in the     *)
(* call, so each call gets a new object                                    *)
fallback_responses_object(h) == Len(h) + 1

(* the key of the entry the keyword chain returns, "none" for the else *)
fallback_key(q) ==
    LET question_lower == Lower(q) IN
    IF ContainsAny(question_lower, churn_words) THEN "churn"
    ELSE IF ContainsAny(question_lower, revenue_words) THEN "revenue"
    ELSE IF ContainsAny(question_lower, support_words) THEN "support"
    ELSE "none"

(* the value of a held response: an entry of a table object, or a dict of  *)
(* the call's own                                                          *)
Deref(h, ref) == IF ref.kind = "entry" THEN h[ref.obj][ref.key] ELSE ref.v

(* a response dict after its holder changed it in place *)
Edited(r) == [r EXCEPT !.message = PyStr(<<"edited">>), !.data = PyNone]

SessionAsk(s, q, c) ==
    /\ sessions[s].pc \in {"Idle", "Returned"}
    /\ sessions[s].calls < MaxCalls
    /\ sessions' = [sessions EXCEPT ![s] =
          [pc |-> "Dispatching", question |-> q, customer_id |-> c, outcome |-> NoValue,
           table |-> 0, held |-> NoValue, returned |-> NoValue, calls |-> @.calls + 1]]
    /\ UNCHANGED heap

SessionQuery(s, o) ==
    /\ sessions[s].pc = "Dispatching"
    /\ sessions' = [sessions EXCEPT ![s].outcome = o,
                                     ![s].pc = IF o.raised THEN "Failed" ELSE "Success"]
    /\ UNCHANGED heap

(* the rest of the try: the response is a dict made in this call *)
SessionProcessResult(s) ==
    /\ sessions[s].pc = "Success"
    /\ LET r == result_response(sessions[s].outcome.frame, sessions[s].question) IN
       sessions' = [sessions EXCEPT ![s].held = [kind |-> "own", v |-> r],
                                    ![s].returned = r,
                                    ![s].pc = "Returned"]
    /\ UNCHANGED heap

(* the except enters _get_fallback_response, which evaluates the literal *)
SessionHandleError(s) ==
    /\ sessions[s].pc = "Failed"
    /\ LET o == fallback_responses_object(heap) IN
       /\ heap' = IF o \in DOMAIN heap THEN [heap EXCEPT ![o] = KBTable]
                  ELSE Append(heap, KBTable)
       /\ sessions' = [sessions EXCEPT ![s].table = o, ![s].pc = "FallbackLookup"]

(* the chain returns an entry object of the table, or a dict of its own *)
SessionReturnFallback(s) ==
    /\ sessions[s].pc = "FallbackLookup"
    /\ LET key == fallback_key(sessions[s].question)
           ref == IF key = "none"
                  THEN [kind |-> "own", v |-> generic_fallback(sessions[s].question)]
                  ELSE [kind |-> "entry", obj |-> sessions[s].table, key |-> key]
       IN  sessions' = [sessions EXCEPT ![s].held = ref,
                                        ![s].returned = Deref(heap, ref),
                                        ![s].pc = "Returned"]
    /\ UNCHANGED heap

(* the caller changes the response it holds, in place *)
SessionCallerEdits(s) ==
    /\ sessions[s].pc = "Returned"
    /\ LET ref == sessions[s].held IN
       IF ref.kind = "entry"
       THEN /\ heap' = [heap EXCEPT ![ref.obj][ref.key] = Edited(@)]
            /\ UNCHANGED sessions
       ELSE /\ sessions' = [sessions EXCEPT ![s].held.v = Edited(@)]
            /\ UNCHANGED heap

SessionsNext ==
    /\ \E s \in Sessions :
          \/ \E q \in SessionQuestions, c \in SessionCustomerIds : SessionAsk(s, q, c)
          \/ \E o \in SessionOutcomes : SessionQuery(s, o)
          \/ SessionProcessResult(s)
          \/ SessionHandleError(s)
          \/ SessionReturnFallback(s)
          \/ SessionCallerEdits(s)
    /\ UNCHANGED <<pc, question, customer_id, queries, result, error, st_errors,
                   lookups, response, produced>>
    /\ UNCHANGED <<chat_vars, setup_vars>>

SessionsSpec == Init /\ [][SessionsNext]_vars

---------------------------------------------------------------------------

PcStates ==
    {"Idle", "Dispatching", "Success", "Failed", "FallbackLookup", "FallbackHit",
     "FallbackMiss"}

(* a call has returned *)
Returned == pc = "Idle" /\ queries # <<>>

(* the table _get_fallback_response holds, in registration order *)
KnowledgeBase ==
    <<[keywords |-> churn_words, response |-> fallback_churn],
      [keywords |-> revenue_words, response |-> fallback_revenue],
      [keywords |-> support_words, response |-> fallback_support]>>

(* the entries one of whose keywords the question contains, ignoring case *)
MatchingEntries(q) ==
    {i \in DOMAIN KnowledgeBase : ContainsAny(Lower(q), KnowledgeBase[i].keywords)}

(* a step of a running call other than the return of the query *)
LocalStep ==
    \/ \E e \in Errors : QueryRaises(e)
    \/ ProcessResult
    \/ HandleError
    \/ FallbackLookup
    \/ ReturnFallback

(* C1: for every question, customer id and upstream outcome, no exception  *)
(* leaves _parse_ai_response or ask_ai: the call is never stuck or outside *)
(* its states, normalizing the payload never raises, and a call that has   *)
(* returned has returned exactly one dict with a message.                  *)
C1_NoExceptionPropagates ==
    /\ pc \in PcStates
    /\ pc # "Idle" => ENABLED LocalStep
    /\ (result # NoValue /\ ~result.empty) =>
          LET r == parse_ai_response(result.RESPONSE, question) IN
          ~IsRaised(r) /\ DOMAIN r = {"message", "data", "chart"}
    /\ Returned => /\ produced = 1
                   /\ ~IsRaised(response)
                   /\ "message" \in DOMAIN response

(* a returned call whose payload made the try body of the parser raise *)
C1_Witness ==
    /\ Returned
    /\ result # NoValue /\ ~result.empty
    /\ IsRaised(parse_ai_response_body(result.RESPONSE, question))

(* C2: when conn.query raises, the call returns the response of a          *)
(* knowledge-base entry whose keyword the question contains, or the        *)
(* generic response when no entry matches, after one lookup; the raw error *)
(* is neither the returned value nor part of its message.                  *)
C2_FailureFallsBack ==
    (Returned /\ error # NoValue) =>
        /\ lookups = 1
        /\ IF MatchingEntries(question) # {}
           THEN \E i \in MatchingEntries(question) : response = KnowledgeBase[i].response
           ELSE response = generic_fallback(question)
        /\ response # error
        /\ response.message # error
        /\ ~Contains(response.message.s, error.s)

(* a timed-out query answered with the support entry *)
C2_Witness ==
    /\ Returned
    /\ error = PyStr(<<"Timeout">>)
    /\ response = fallback_support

(* a payload that normalizes to a blank message with no data: a blank      *)
(* text, or a map (or the JSON text of one) whose message is blank and     *)
(* whose data is absent or null                                            *)
BlankMap(m) ==
    /\ m.t = "dict"
    /\ HasKey(m, <<"message">>)
    /\ DictGet(m, <<"message">>, PyNone).t = "str"
    /\ IsBlank(DictGet(m, <<"message">>, PyNone).s)
    /\ DictGet(m, <<"data">>, PyNone) = PyNone

BlankPayload(v) ==
    \/ v.t = "str" /\ IsBlank(v.s)
    \/ v.t = "str" /\ loads(v.s).ok /\ BlankMap(loads(v.s).v)
    \/ BlankMap(v)

EmptyOrBlank(frame) == frame.empty \/ BlankPayload(frame.RESPONSE)

(* C3 as stated: an empty or blank upstream result is answered from the    *)
(* knowledge base like a failure, so a question with a fallback keyword    *)
(* gets that entry's response.                                             *)
C3_EmptyTreatedAsFailure ==
    (Returned /\ result # NoValue /\ EmptyOrBlank(result)
       /\ MatchingEntries(question) # {}) =>
        \E i \in MatchingEntries(question) : response = KnowledgeBase[i].response

(* C3 amended: when the query returns, the knowledge base is never         *)
(* consulted; an empty result is answered with the fixed apology, and a    *)
(* payload that normalizes to a blank message is returned with that blank  *)
(* message, no data and no chart.                                          *)
C3_EmptyNotFallback ==
    (Returned /\ result # NoValue) =>
        /\ lookups = 0
        /\ result.empty =>
              response = Response(PyStr(EmptyResultMessage), PyNone, PyNone)
        /\ (~result.empty /\ BlankPayload(result.RESPONSE)) =>
              /\ response.message.t = "str" /\ IsBlank(response.message.s)
              /\ response.data = PyNone
              /\ response.chart = PyNone

(* an empty result for a question that holds a fallback keyword *)
C3_Witness ==
    /\ Returned
    /\ result = EmptyFrame
    /\ MatchingEntries(question) # {}

(* the steps the state machine of the dispatcher allows *)
C4_Transition ==
    /\ pc = "Idle" => pc' \in {"Idle", "Dispatching"}
    /\ pc = "Dispatching" => pc' \in {"Success", "Failed"}
    /\ pc = "Failed" => pc' = "FallbackLookup"
    /\ pc = "FallbackLookup" => pc' \in {"FallbackHit", "FallbackMiss"}
    /\ pc' = "FallbackLookup" => pc = "Failed"
    /\ pc \in {"Success", "FallbackHit", "FallbackMiss"} =>
          pc' = "Idle" /\ produced = 0 /\ produced' = 1 /\ response' # NoValue
    /\ pc' = "Idle" /\ pc # "Idle" => pc \in {"Success", "FallbackHit", "FallbackMiss"}

(* C4: a call goes Idle, Dispatching, then Success or Failed; Failed is    *)
(* followed by FallbackLookup and then FallbackHit or FallbackMiss;        *)
(* FallbackLookup is entered from Failed only; Success and both fallback   *)
(* outcomes end in Idle with exactly one response produced; and a call     *)
(* that started does return.                                               *)
C4_StateMachine ==
    /\ [][C4_Transition]_vars
    /\ (pc = "Dispatching") ~> (pc = "Idle" /\ produced = 1)

(* a call at the return of a lookup that found no entry *)
C4_Witness == pc = "FallbackMiss" /\ lookups = 1 /\ produced = 0

(* C5: a call issues at most one conn.query: none before the dispatch,     *)
(* exactly one from then on, also after a failed or an empty result.       *)
C5_AtMostOneQuery ==
    /\ Len(queries) <= 1
    /\ pc \notin {"Idle", "Dispatching"} => Len(queries) = 1
    /\ (pc = "Idle" /\ produced = 1) => Len(queries) = 1

(* a call in the fallback lookup after its one query failed *)
C5_Witness == pc = "FallbackLookup" /\ error # NoValue /\ Len(queries) = 1

(* C6 as stated: the customer-scoped query is issued if and only if a      *)
(* customer id is present (not None).                                      *)
C6_ScopedIffPresent ==
    queries # <<>> =>
        (queries[1].fn = "analyze_customer" <=> customer_id # PyNone)

(* C6 amended: the customer-scoped query is issued if and only if the      *)
(* customer id is present and not the empty text, the general query        *)
(* otherwise; a call issues exactly one of the two, the scoped one with    *)
(* the customer id and the general one with the question.                  *)
C6_ScopedIffNonEmpty ==
    /\ queries # <<>> =>
          /\ queries[1].fn \in {"analyze_customer", "ask_customer_360_ai"}
          /\ queries[1].fn = "analyze_customer" <=>
                (customer_id.t = "str" /\ customer_id.s # <<>>)
          /\ queries[1].fn = "analyze_customer" => queries[1].params = <<customer_id>>
          /\ queries[1].fn = "ask_customer_360_ai" =>
                queries[1].params = <<PyStr(question)>>
    /\ Returned => Len(queries) = 1

(* a call with the empty text as customer id, sent to the general query *)
C6_Witness ==
    /\ queries # <<>>
    /\ customer_id = PyStr(<<>>)
    /\ queries[1].fn = "ask_customer_360_ai"

(* the call returned the normalized payload of a non-empty frame *)
Normalized == Returned /\ result # NoValue /\ ~result.empty

(* the payload as a map: a dict, or a text that is the JSON of an object *)
IsMapLike(v) ==
    \/ v.t = "dict"
    \/ v.t = "str" /\ json_loads(v.s).ok /\ json_loads(v.s).v.t = "dict"

AsMap(v) == IF v.t = "dict" THEN v ELSE json_loads(v.s).v

(* C7: for a map with a message field and any question, normalizing the    *)
(* map and normalizing its JSON text give the same response: whichever of  *)
(* the two forms the upstream returned, the response is the one the other  *)
(* form gets.                                                              *)
C7_MapAndJsonTextConverge ==
    Normalized =>
        LET v == result.RESPONSE IN
        /\ (v.t = "dict" /\ HasKey(v, <<"message">>)) =>
              response = parse_ai_response(PyStr(JsonEncode(v)), question)
        /\ (v.t = "str" /\ IsMapLike(v) /\ HasKey(AsMap(v), <<"message">>)) =>
              response = parse_ai_response(AsMap(v), question)

(* a map with a message and a table, normalized with a chart *)
C7_Witness ==
    /\ Normalized
    /\ result.RESPONSE.t = "dict"
    /\ HasKey(result.RESPONSE, <<"message">>)
    /\ DictGet(result.RESPONSE, <<"data">>, PyNone) \in Tables
    /\ response.chart.t = "fig"

(* C8: a text payload that json.loads rejects is returned as the message,  *)
(* exactly, with data None and chart None.                                 *)
C8_UnparsableTextIsMessage ==
    (Normalized /\ result.RESPONSE.t = "str" /\ ~json_loads(result.RESPONSE.s).ok) =>
        /\ response.message = result.RESPONSE
        /\ response.data = PyNone
        /\ response.chart = PyNone

(* a JSON text cut short, returned as the message *)
C8_Witness ==
    /\ Normalized
    /\ result.RESPONSE \in CutTexts
    /\ response.message = result.RESPONSE

MessageAbsent(m) == ~HasKey(m, <<"message">>)

MessageBlank(m) ==
    /\ HasKey(m, <<"message">>)
    /\ DictGet(m, <<"message">>, PyNone).t = "str"
    /\ IsBlank(DictGet(m, <<"message">>, PyNone).s)

(* C9 as stated: a map whose message is absent or blank gets a fixed       *)
(* apology as its message, which is neither blank nor the payload's        *)
(* textual representation.                                                 *)
C9_DefaultIsApology ==
    (Normalized /\ result.RESPONSE.t = "dict"
       /\ (MessageAbsent(result.RESPONSE) \/ MessageBlank(result.RESPONSE))) =>
        /\ response.message.t = "str"
        /\ ~IsBlank(response.message.s)
        /\ response.message # PyStr(PyRepr(result.RESPONSE))

(* C9 amended: for a map without a message field the message is the        *)
(* payload's textual representation (str of the dict; for a JSON text, the *)
(* text itself); a blank message field is returned as it is.  No apology   *)
(* is substituted.                                                         *)
C9_DefaultIsPayloadText ==
    (Normalized /\ IsMapLike(result.RESPONSE)) =>
        LET v == result.RESPONSE
            m == AsMap(v)
        IN  /\ MessageAbsent(m) =>
                  response.message = IF v.t = "dict" THEN PyStr(PyRepr(v)) ELSE v
            /\ MessageBlank(m) =>
                  /\ response.message = DictGet(m, <<"message">>, PyNone)
                  /\ IsBlank(response.message.s)

(* a dict without a message field, answered with its repr *)
C9_Witness ==
    /\ Normalized
    /\ result.RESPONSE.t = "dict"
    /\ MessageAbsent(result.RESPONSE)
    /\ response.message = PyStr(PyRepr(result.RESPONSE))

(* the map without one of its keys *)
DictWithout(m, key) == PyDict(SelectSeq(m.d, LAMBDA e : e.k # key))

(* C10 as stated: a chart the payload carries is the response's chart.     *)
C10_ExplicitChartUsed ==
    (Normalized /\ IsMapLike(result.RESPONSE)
       /\ HasKey(AsMap(result.RESPONSE), <<"chart">>)) =>
        response.chart = DictGet(AsMap(result.RESPONSE), <<"chart">>, PyNone)

(* C10 amended: a chart field of the payload is ignored: the response is   *)
(* the one the payload without that field gets, its chart is a figure      *)
(* built from data or None, and it is None when the payload has no data.   *)
C10_ExplicitChartIgnored ==
    (Normalized /\ IsMapLike(result.RESPONSE)
       /\ HasKey(AsMap(result.RESPONSE), <<"chart">>)) =>
        LET m == AsMap(result.RESPONSE) IN
        /\ response.chart # DictGet(m, <<"chart">>, PyNone)
        /\ response.chart.t \in {"fig", "none"}
        /\ response.data = DictGet(m, <<"data">>, PyNone)
        /\ response.chart = create_chart_if_needed(response.data, question)
        /\ ~HasKey(m, <<"data">>) => response.chart = PyNone
        /\ HasKey(m, <<"message">>) =>
              response = parse_ai_response(DictWithout(m, <<"chart">>), question)

(* a payload with a chart field and a table, answered with a built figure *)
C10_Witness ==
    /\ Normalized
    /\ IsMapLike(result.RESPONSE)
    /\ HasKey(AsMap(result.RESPONSE), <<"chart">>)
    /\ response.chart.t = "fig"

(* C11: a payload that is neither text nor a map (None, a number, a        *)
(* boolean, a list) is answered with its textual representation, str(),    *)
(* as the message, with data None and chart None.                          *)
C11_OtherPayloadIsItsText ==
    (Normalized /\ result.RESPONSE.t \notin {"str", "dict"}) =>
        /\ response.message = PyStr(PyRepr(result.RESPONSE))
        /\ response.data = PyNone
        /\ response.chart = PyNone
        /\ result.RESPONSE = PyNone => response.message = PyStr(<<"N", "o", "n", "e">>)
        /\ result.RESPONSE = PyBool(FALSE) => response.message = PyStr(<<"F", "a", "l", "s", "e">>)
        /\ result.RESPONSE = PyInt(42) => response.message = PyStr(<<"4", "2">>)

(* a list payload holding a text and None, answered with its repr *)
C11_Witness ==
    /\ Normalized
    /\ result.RESPONSE = PyList(<<PyStr(msg_hi), PyNone>>)
    /\ response =
          Response(PyStr(<<"[", "'", "H", "i", "'", ",", " ", "N", "o", "n", "e", "]">>),
                   PyNone, PyNone)

(* data the chart selector builds a frame of: a record, or a list of records *)
IsTable(d) ==
    \/ d.t = "dict" /\ d.d # <<>>
    \/ d.t = "list" /\ d.a # <<>> /\ \A i \in DOMAIN d.a : d.a[i].t = "dict"

(* the frame of a table *)
FrameOf(d) == DataFrame(IF d.t = "dict" THEN <<d>> ELSE d.a)

(* the call returned a response whose chart was selected for a table *)
Charted == Normalized /\ response.data # PyNone /\ IsTable(response.data)

(* the column kinds as the builders see them: temporal by name, numeric    *)
(* and text by dtype                                                       *)
TemporalCols(df) ==
    {c \in Range(df.columns) : Contains(Lower(c), kw_date) \/ Contains(Lower(c), kw_time)}

NumericCols(df) == {c \in Range(df.columns) : IsNumeric(df, c)}

TextCols(df) == {c \in Range(df.columns) : ColDtype(df, c) = "object"}

(* the first rule, in order, one of whose keywords the context contains;   *)
(* rule 4 has no keyword                                                   *)
KeywordRule(context) ==
    LET has(w) == Contains(Lower(context), w) IN
    IF has(kw_trend) \/ has(kw_time) THEN 1
    ELSE IF has(kw_tier) \/ has(kw_category) THEN 2
    ELSE IF has(kw_risk) \/ has(kw_score) THEN 3
    ELSE 4

(* the column conditions of each rule *)
ColumnsFit(k, df) ==
    CASE k = 1 -> TemporalCols(df) # {} /\ NumericCols(df) # {}
      [] k = 2 -> TextCols(df) # {} /\ NumericCols(df) # {}
      [] k = 3 -> Cardinality(NumericCols(df)) >= 2
      [] k = 4 -> Len(df.columns) >= 2

(* the titles of the figures of each rule *)
RuleTitles ==
    <<{"Trend Analysis"}, {"Distribution", "Category Analysis"},
      {"Correlation Analysis"}, {"Data Analysis"}>>

(* C12 as stated: a rule whose keyword is present but whose columns are    *)
(* missing leaves the decision to the later rules, so a table of two or    *)
(* more columns always gets a chart; "show distribution by category" over  *)
(* a date and a numeric column gets the generic comparison, and a trend    *)
(* question over two numeric columns gets the correlation or the generic   *)
(* comparison.                                                             *)
C12_RulesFallThrough ==
    Charted =>
        LET df == FrameOf(response.data) IN
        /\ Len(df.columns) >= 2 => response.chart # PyNone
        /\ (question = q_category /\ df.columns = <<col_date, col_amount>>) =>
              response.chart = Figure("bar", col_date, col_amount, "Data Analysis")
        /\ (question = q_revenue /\ df.columns = <<col_amount, col_visits>>) =>
              /\ response.chart # PyNone
              /\ response.chart.title \in {"Correlation Analysis", "Data Analysis"}

(* C12 amended: the first rule, in the order trend/time, tier/category,    *)
(* risk/score, one of whose keywords the context contains decides alone:   *)
(* the chart is that rule's figure when its column conditions hold and     *)
(* None when they fail, and no later rule is tried; the generic comparison *)
(* is chosen only for a context with none of the keywords.  A trend        *)
(* question over two numeric columns and no temporal one gets None, and    *)
(* "show distribution by category" over a date text and a numeric column   *)
(* gets the distribution of the numeric column over the dates.             *)
C12_KeywordAloneDecides ==
    Charted =>
        LET df == FrameOf(response.data)
            k  == KeywordRule(question)
        IN  /\ response.chart = PyNone <=> ~ColumnsFit(k, df)
            /\ response.chart # PyNone =>
                  response.chart.t = "fig" /\ response.chart.title \in RuleTitles[k]
            /\ (question = q_revenue /\ df.columns = <<col_amount, col_visits>>) =>
                  response.chart = PyNone
            /\ (question = q_category /\ df.columns = <<col_date, col_amount>>) =>
                  response.chart = Figure("pie", col_date, col_amount, "Distribution")

(* a trend question over two numeric columns, answered without a chart *)
C12_Witness ==
    /\ Charted
    /\ question = q_revenue
    /\ FrameOf(response.data).columns = <<col_amount, col_visits>>
    /\ response.chart = PyNone

(* C13: a table with a single column and no numeric values gets no chart,  *)
(* for the question asked and for every other question context, whichever  *)
(* keywords it contains.                                                   *)
C13_SingleTextColumnNoChart ==
    Charted =>
        LET df == FrameOf(response.data) IN
        (Len(df.columns) = 1 /\ NumericCols(df) = {}) =>
            /\ response.chart = PyNone
            /\ \A q \in Questions : create_chart_if_needed(response.data, q) = PyNone

(* a question about time over a single column of date texts: no chart *)
C13_Witness ==
    /\ Charted
    /\ question = q_time
    /\ FrameOf(response.data).columns = <<col_date>>
    /\ response.chart = PyNone

(* the least of a non-empty set of entry positions *)
Earliest(m) == CHOOSE i \in m : \A j \in m : i <= j

(* C14: after a failed query the entries are tried in the order churn,     *)
(* revenue, support, a keyword matching as a substring of the question     *)
(* whatever its case: the response is that of the earliest entry with a    *)
(* keyword in the question, and the generic message when there is none.    *)
(* A question with "RISK" and "revenue" gets the churn entry, "Upsell" the *)
(* revenue entry, "issues" the support entry.                              *)
C14_EarliestEntryWins ==
    (Returned /\ error # NoValue) =>
        LET m == MatchingEntries(question) IN
        /\ m # {} => response = KnowledgeBase[Earliest(m)].response
        /\ m = {} => response = generic_fallback(question)
        /\ question = q_risk_revenue => m = {1, 2} /\ response = fallback_churn
        /\ question = q_upsell => response = fallback_revenue
        /\ question = q_support_issues => response = fallback_support
        /\ question \in {q_weather, q_distribution, <<>>} =>
              m = {} /\ response.data = PyNone

(* a question with a churn and a revenue keyword, answered with the churn  *)
(* entry                                                                   *)
C14_Witness ==
    /\ Returned
    /\ error # NoValue
    /\ question = q_risk_revenue
    /\ response = fallback_churn

(* the question contains the word, whatever its case *)
HasWord(q, w) == Contains(Lower(q), w)

(* the values of one key over the rows of a list of records *)
ColumnOf(d, key) == [i \in DOMAIN d.a |-> DictGet(d.a[i], key, PyNone)]

(* what C15 says of the questions that hold a keyword: "churn" or "risk"   *)
(* gets the churn entry, three rows High, Medium, Low with counts 3, 8,    *)
(* 15; "revenue" or "upsell" without a churn keyword gets the revenue      *)
(* entry with three rows.                                                  *)
C15_EntriesOfKeywords ==
    /\ (HasWord(question, <<"c","h","u","r","n">>) \/ HasWord(question, kw_risk)) =>
          /\ response = fallback_churn
          /\ response.data.t = "list" /\ Len(response.data.a) = 3
          /\ ColumnOf(response.data, <<"Risk Level">>) = <<S("High"), S("Medium"), S("Low")>>
          /\ ColumnOf(response.data, <<"Count">>) = <<PyInt(3), PyInt(8), PyInt(15)>>
    /\ ((HasWord(question, <<"r","e","v","e","n","u","e">>)
            \/ HasWord(question, <<"u","p","s","e","l","l">>))
         /\ ~ContainsAny(Lower(question), churn_words)) =>
          /\ response = fallback_revenue
          /\ response.data.t = "list" /\ Len(response.data.a) = 3
          /\ ColumnOf(response.data, <<"Opportunity">>)
                = <<S("Premium Upsell"), S("Cross-sell"), S("Expansion")>>

(* C15 as stated: the entries of the keywords, and null for a question     *)
(* that matches no keyword.                                                *)
C15_UnmatchedIsNull ==
    (Returned /\ error # NoValue) =>
        /\ C15_EntriesOfKeywords
        /\ MatchingEntries(question) = {} => response = PyNone

(* C15 amended: the entries of the keywords as stated; for a question that *)
(* matches no keyword the lookup returns no null but a response of its     *)
(* own, whose message quotes the question and whose data and chart are     *)
(* None.                                                                   *)
C15_UnmatchedIsGeneric ==
    (Returned /\ error # NoValue) =>
        /\ C15_EntriesOfKeywords
        /\ MatchingEntries(question) = {} =>
              /\ response # PyNone
              /\ DOMAIN response = {"message", "data", "chart"}
              /\ response.message.t = "str"
              /\ Contains(response.message.s, question)
              /\ response.message.s[1] = "I understand you're asking about: "
              /\ response.data = PyNone
              /\ response.chart = PyNone

(* a question about the weather after a failed query: the generic response *)
C15_Witness ==
    /\ Returned
    /\ error # NoValue
    /\ question = q_weather
    /\ response.message.t = "str"
    /\ response.data = PyNone

(* C16: ask_ai("What are the most common support issues?", None) whose     *)
(* general query raises returns the support entry: the message mentions    *)
(* support, and the data is three rows with the issue types Billing,       *)
(* Shipping, Technical in that order.                                      *)
C16_SupportScenario ==
    (Returned /\ error # NoValue /\ question = q_support_issues
       /\ customer_id = PyNone) =>
        /\ Len(queries) = 1 /\ queries[1].fn = "ask_customer_360_ai"
        /\ response = fallback_support
        /\ response.message.t = "str"
        /\ HasWord(response.message.s, <<"s","u","p","p","o","r","t">>)
        /\ response.data.t = "list" /\ Len(response.data.a) = 3
        /\ ColumnOf(response.data, <<"Issue Type">>)
              = <<S("Billing"), S("Shipping"), S("Technical")>>

(* the scenario: the general query for that question timed out and the     *)
(* call returned three rows                                                *)
C16_Witness ==
    /\ Returned
    /\ error = PyStr(<<"Timeout">>)
    /\ question = q_support_issues
    /\ customer_id = PyNone
    /\ queries[1].fn = "ask_customer_360_ai"
    /\ Len(response.data.a) = 3

(* the path a returned call took *)
FallbackHitPath == Returned /\ error # NoValue /\ MatchingEntries(question) # {}

FallbackMissPath == Returned /\ error # NoValue /\ MatchingEntries(question) = {}

EmptyPath == Returned /\ result # NoValue /\ result.empty

(* C17 as stated: on every path the returned response has the three        *)
(* fields message, data and chart.                                         *)
C17_AllThreeFields ==
    Returned => DOMAIN response = {"message", "data", "chart"}

(* C17 amended: every returned response has a message and a data field;    *)
(* the chart field is present (a figure or None) on the normalized, the    *)
(* empty-result and the fallback-miss path, and absent from the response   *)
(* of a fallback hit, which is the table's entry of message and data only. *)
C17_ChartFieldAbsentOnHit ==
    Returned =>
        /\ {"message", "data"} \subseteq DOMAIN response
        /\ DOMAIN response \subseteq {"message", "data", "chart"}
        /\ (Normalized \/ EmptyPath \/ FallbackMissPath) =>
              "chart" \in DOMAIN response /\ response.chart.t \in {"fig", "none"}
        /\ FallbackHitPath => DOMAIN response = {"message", "data"}
        /\ Normalized \/ EmptyPath \/ FallbackMissPath \/ FallbackHitPath

(* a fallback hit: the revenue entry, returned without a chart field *)
C17_Witness ==
    /\ FallbackHitPath
    /\ response = fallback_revenue
    /\ "chart" \notin DOMAIN response

(* the response of a call that runs alone *)
AloneResponse(q, c, o) ==
    IF o.raised THEN get_fallback_response(q, c) ELSE result_response(o.frame, q)

(* C18: with several sessions calling in any interleaving, each call       *)
(* returns the response it would return alone for its question, customer   *)
(* id and query outcome; and the table a lookup reads has the content of   *)
(* the knowledge base in every reachable state, whatever other calls did   *)
(* and whatever callers changed in the responses they hold.                *)
C18_SessionsIndependent ==
    \A s \in Sessions :
        /\ sessions[s].pc = "Returned" =>
              sessions[s].returned =
                  AloneResponse(sessions[s].question, sessions[s].customer_id,
                                sessions[s].outcome)
        /\ sessions[s].pc = "FallbackLookup" =>
              /\ sessions[s].table \in DOMAIN heap
              /\ heap[sessions[s].table] = KBTable
              /\ \A i \in DOMAIN KnowledgeBase :
                    KnowledgeBase[i].response \in Range(<<KBTable.churn, KBTable.revenue,
                                                         KBTable.support>>)

(* one session's caller has changed the churn entry it was returned, while *)
(* the other session is in its lookup for a churn question                 *)
C18_Witness ==
    \E s, u \in Sessions :
        /\ s # u
        /\ sessions[s].pc = "Returned"
        /\ sessions[s].held.kind = "entry"
        /\ sessions[s].returned = fallback_churn
        /\ Deref(heap, sessions[s].held) = Edited(fallback_churn)
        /\ sessions[u].pc = "FallbackLookup"
        /\ sessions[u].question = q_churn

(* the first column, in column order, that is in the set *)
FirstOf(df, cols) ==
    df.columns[CHOOSE i \in DOMAIN df.columns :
                  /\ df.columns[i] \in cols
                  /\ \A j \in 1..(i - 1) : df.columns[j] \notin cols]

(* C19 with the kinds as the builder takes them, each by its own test (it  *)
(* holds): when the context contains "trend" or "time" and the table has a *)
(* temporal column (one whose name contains date or time) and a numeric    *)
(* column (one of numeric cells), the chart is the time series with the    *)
(* first temporal column, in column order, on x and the first numeric      *)
(* column, in column order, on y.  The two kinds are taken as the builder  *)
(* takes them, each by its own test.                                       *)
C19_TimeSeriesBindsFirstColumns ==
    Charted =>
        LET df == FrameOf(response.data) IN
        ((HasWord(question, kw_trend) \/ HasWord(question, kw_time))
           /\ TemporalCols(df) # {} /\ NumericCols(df) # {}) =>
            /\ response.chart.t = "fig"
            /\ response.chart.fn = "line"
            /\ response.chart.title = "Trend Analysis"
            /\ response.chart.x = FirstOf(df, TemporalCols(df))
            /\ response.chart.y = FirstOf(df, NumericCols(df))

(* a question about time over visits, Time, date, amount: Time on x and    *)
(* visits on y                                                             *)
C19_Witness ==
    /\ Charted
    /\ question = q_time
    /\ FrameOf(response.data).columns = <<col_visits, col_time, col_date, col_amount>>
    /\ response.chart = Figure("line", col_time, col_visits, "Trend Analysis")

(* C20 as stated: without a match of rule 1, each of the keywords "tier",  *)
(* "category" and "distribution" alone, over a table with a text column    *)
(* and a numeric column, gives the categorical distribution of the numeric *)
(* column over the text column.                                            *)
C20_DistributionIsGrouping ==
    Charted =>
        LET df == FrameOf(response.data) IN
        (~((HasWord(question, kw_trend) \/ HasWord(question, kw_time))
             /\ TemporalCols(df) # {} /\ NumericCols(df) # {})
           /\ (HasWord(question, kw_tier) \/ HasWord(question, kw_category)
                 \/ HasWord(question, <<"d","i","s","t","r","i","b","u","t","i","o","n">>))
           /\ TextCols(df) # {} /\ NumericCols(df) # {}) =>
            /\ response.chart.t = "fig"
            /\ response.chart.title \in {"Distribution", "Category Analysis"}
            /\ response.chart.x \in TextCols(df)
            /\ response.chart.y \in NumericCols(df)

(* C20 amended: the grouping keywords are "tier" and "category" only.      *)
(* When the context contains neither "trend" nor "time" and contains one   *)
(* of the two, and the table has a text column and a numeric column, the   *)
(* chart is the categorical distribution with the first text column as     *)
(* labels and the first numeric column as values.  "distribution" is no    *)
(* keyword: a context whose only such word it is gets the generic          *)
(* comparison of the first two columns.                                    *)
C20_TierOrCategoryOnly ==
    Charted =>
        LET df == FrameOf(response.data) IN
        /\ (~(HasWord(question, kw_trend) \/ HasWord(question, kw_time))
              /\ (HasWord(question, kw_tier) \/ HasWord(question, kw_category))
              /\ TextCols(df) # {} /\ NumericCols(df) # {}) =>
                /\ response.chart.t = "fig"
                /\ response.chart.title \in {"Distribution", "Category Analysis"}
                /\ response.chart.x = FirstOf(df, TextCols(df))
                /\ response.chart.y = FirstOf(df, NumericCols(df))
        /\ (question = q_distribution /\ Len(df.columns) >= 2) =>
                response.chart = Figure("bar", df.columns[1], df.columns[2], "Data Analysis")

(* "Distribution" asked over a group and a numeric column: the generic     *)
(* comparison, no categorical distribution                                 *)
C20_Witness ==
    /\ Charted
    /\ question = q_distribution
    /\ FrameOf(response.data).columns = <<col_tier, col_amount>>
    /\ response.chart = Figure("bar", col_tier, col_amount, "Data Analysis")

(* the chart is a categorical distribution: the pie or the bar chart of    *)
(* _create_category_chart                                                  *)
IsCategoryChart(c) ==
    /\ c.t = "fig"
    /\ \/ c.fn = "pie" /\ c.title = "Distribution"
       \/ c.fn = "bar" /\ c.title = "Category Analysis"

(* C21: a categorical distribution is drawn as a pie exactly when the      *)
(* table has five or fewer rows and as a bar chart exactly when it has     *)
(* more than five; in both cases it is the categorical distribution of the *)
(* same two columns, the first text and the first numeric column.          *)
C21_PieUpToFiveRows ==
    (Charted /\ KeywordRule(question) = 2
       /\ ColumnsFit(2, FrameOf(response.data))) =>
        LET df == FrameOf(response.data) IN
        /\ IsCategoryChart(response.chart)
        /\ response.chart.fn = "pie" <=> df.len <= 5
        /\ response.chart.fn = "bar" <=> df.len > 5
        /\ response.chart.x = FirstOf(df, TextCols(df))
        /\ response.chart.y = FirstOf(df, NumericCols(df))

(* a question by tier over six rows of a group: the bar chart *)
C21_Witness ==
    /\ Charted
    /\ question = q_support
    /\ FrameOf(response.data).len = 6
    /\ response.chart = Figure("bar", col_tier, col_amount, "Category Analysis")

(* the first two columns, in column order, that are in the set *)
FirstTwoOf(df, cols) == SubSeq(SelectSeq(df.columns, LAMBDA c : c \in cols), 1, 2)

(* rule k matches as the specification has it: a keyword of the rule is in *)
(* the context and the rule's column conditions hold                       *)
RuleMatches(k, context, df) ==
    /\ CASE k = 1 -> HasWord(context, kw_trend) \/ HasWord(context, kw_time)
         [] k = 2 -> HasWord(context, kw_tier) \/ HasWord(context, kw_category)
         [] k = 3 -> HasWord(context, kw_risk) \/ HasWord(context, kw_score)
    /\ ColumnsFit(k, df)

(* C22 as stated: when rules 1 and 2 do not match, each of the keywords    *)
(* "risk", "score" and "correlation" alone, over a table with two numeric  *)
(* columns, gives the correlation of the first two numeric columns.        *)
C22_CorrelationIsRelational ==
    Charted =>
        LET df == FrameOf(response.data) IN
        (~RuleMatches(1, question, df) /\ ~RuleMatches(2, question, df)
           /\ (HasWord(question, kw_risk) \/ HasWord(question, kw_score)
                 \/ HasWord(question, <<"c","o","r","r","e","l","a","t","i","o","n">>))
           /\ Cardinality(NumericCols(df)) >= 2) =>
            /\ response.chart.t = "fig"
            /\ response.chart.fn = "scatter"
            /\ <<response.chart.x, response.chart.y>> = FirstTwoOf(df, NumericCols(df))

(* C22 amended: the relational keywords are "risk" and "score" only.  When *)
(* the context contains none of "trend", "time", "tier", "category" and    *)
(* contains one of the two, and the table has two numeric columns, the     *)
(* chart is the correlation with the first two numeric columns, in column  *)
(* order, on x and y.  "correlation" is no keyword: a context whose only   *)
(* such word it is gets the generic comparison of the first two columns.   *)
C22_RiskOrScoreOnly ==
    Charted =>
        LET df == FrameOf(response.data) IN
        /\ (~(HasWord(question, kw_trend) \/ HasWord(question, kw_time))
              /\ ~(HasWord(question, kw_tier) \/ HasWord(question, kw_category))
              /\ (HasWord(question, kw_risk) \/ HasWord(question, kw_score))
              /\ Cardinality(NumericCols(df)) >= 2) =>
                /\ response.chart.t = "fig"
                /\ response.chart.fn = "scatter"
                /\ response.chart.title = "Correlation Analysis"
                /\ <<response.chart.x, response.chart.y>> = FirstTwoOf(df, NumericCols(df))
        /\ (question = q_correlation /\ Len(df.columns) >= 2) =>
                response.chart = Figure("bar", df.columns[1], df.columns[2], "Data Analysis")

(* "Correlation" asked over visits, Time, date, amount: the generic        *)
(* comparison of visits and Time, no correlation of visits and amount      *)
C22_Witness ==
    /\ Charted
    /\ question = q_correlation
    /\ FrameOf(response.data).columns = <<col_visits, col_time, col_date, col_amount>>
    /\ response.chart = Figure("bar", col_visits, col_time, "Data Analysis")

(* the generic comparison of a frame of two or more columns *)
GenericComparison(df) == Figure("bar", df.columns[1], df.columns[2], "Data Analysis")

(* C23 as stated: when none of rules 1 to 3 matches (no keyword of theirs  *)
(* with its column conditions), the chart is the generic comparison of the *)
(* first two columns if and only if the table has two or more columns, and *)
(* None otherwise.                                                         *)
C23_GenericWhenNoRuleMatches ==
    Charted =>
        LET df == FrameOf(response.data) IN
        (\A k \in 1..3 : ~RuleMatches(k, question, df)) =>
            IF Len(df.columns) >= 2
            THEN response.chart = GenericComparison(df)
            ELSE response.chart = PyNone

(* C23 amended: when the context contains no keyword of rules 1 to 3, the  *)
(* chart is the generic comparison if and only if the table has two or     *)
(* more columns, with the first column as labels and the second as values  *)
(* whatever their kinds, and None with fewer columns.  A context with such *)
(* a keyword never gets the generic comparison, also when the columns of   *)
(* the keyword's rule are missing.                                         *)
C23_GenericWhenNoKeyword ==
    Charted =>
        LET df == FrameOf(response.data) IN
        /\ KeywordRule(question) = 4 =>
              IF Len(df.columns) >= 2
              THEN response.chart = GenericComparison(df)
              ELSE response.chart = PyNone
        /\ KeywordRule(question) # 4 =>
              (response.chart = PyNone \/ response.chart.title # "Data Analysis")

(* a question without keyword over date, tier, amount: date against tier,  *)
(* two text columns                                                        *)
C23_Witness ==
    /\ Charted
    /\ question = q_weather
    /\ FrameOf(response.data).columns = <<col_date, col_tier, col_amount>>
    /\ response.chart = Figure("bar", col_date, col_tier, "Data Analysis")

(* the rules a keyword of which the context contains *)
RulesNamed(context) ==
    {k \in 1..3 :
        CASE k = 1 -> HasWord(context, kw_trend) \/ HasWord(context, kw_time)
          [] k = 2 -> HasWord(context, kw_tier) \/ HasWord(context, kw_category)
          [] k = 3 -> HasWord(context, kw_risk) \/ HasWord(context, kw_score)}

C25_KindsExclusive ==
    (Charted /\ response.chart # PyNone) =>
        LET df == FrameOf(response.data) IN
        /\ response.chart.fn = "line" =>
              /\ response.chart.x # response.chart.y
              /\ response.chart.y \notin TemporalCols(df)
        /\ IsCategoryChart(response.chart) => response.chart.y \notin TemporalCols(df)
        /\ response.chart.fn = "scatter" =>
              {response.chart.x, response.chart.y} \cap TemporalCols(df) = {}

(* What the builders do instead of C25: the two tests are independent and  *)
(* a column can pass both.  A column of numbers whose name contains "date" *)
(* or "time" (timestamp, lifetime_value) is taken as a temporal and as a   *)
(* numeric column; when it is the first of both, the time series has it on *)
(* both axes, and the categorical distribution takes it as its values.     *)
C25_KindsOverlap ==
    Charted =>
        LET df   == FrameOf(response.data)
            both == TemporalCols(df) \cap NumericCols(df)
        IN  /\ (KeywordRule(question) = 1 /\ both # {}) =>
                  /\ response.chart.t = "fig" /\ response.chart.fn = "line"
                  /\ response.chart.x = FirstOf(df, TemporalCols(df))
                  /\ response.chart.y = FirstOf(df, NumericCols(df))
                  /\ FirstOf(df, TemporalCols(df)) = FirstOf(df, NumericCols(df)) =>
                        response.chart.x = response.chart.y
            /\ (KeywordRule(question) = 1 /\ df.columns = <<col_tier, col_lifetime_value>>) =>
                  response.chart =
                      Figure("line", col_lifetime_value, col_lifetime_value, "Trend Analysis")
            /\ (KeywordRule(question) = 2 /\ df.columns = <<col_tier, col_lifetime_value>>) =>
                  /\ IsCategoryChart(response.chart)
                  /\ response.chart.y = col_lifetime_value

(* a trend question over tier and lifetime_value: lifetime_value against   *)
(* itself                                                                  *)
C25_Witness ==
    /\ Charted
    /\ question = q_revenue
    /\ FrameOf(response.data).columns = <<col_tier, col_lifetime_value>>
    /\ response.chart.x = col_lifetime_value
    /\ response.chart.y = col_lifetime_value

(* the numeric columns of a classification that gives a column one kind,   *)
(* the name deciding first                                                 *)
NumericOnlyCols(df) == NumericCols(df) \ TemporalCols(df)

(* C19: when the context contains "trend" or "time" and the table has a    *)
(* temporal column and a numeric column, the chart is the time series with *)
(* the first temporal column on x and the first numeric column on y, a     *)
(* column with a temporal name being temporal and no numeric column.       *)
C19_TimeSeriesOfTwoKinds ==
    Charted =>
        LET df == FrameOf(response.data) IN
        ((HasWord(question, kw_trend) \/ HasWord(question, kw_time))
           /\ TemporalCols(df) # {} /\ NumericOnlyCols(df) # {}) =>
            /\ response.chart.t = "fig"
            /\ response.chart.fn = "line"
            /\ response.chart.x = FirstOf(df, TemporalCols(df))
            /\ response.chart.y = FirstOf(df, NumericOnlyCols(df))

(* a trend question over timestamp and amount, both of numbers: timestamp  *)
(* on both axes, amount on none                                            *)
C19_SameColumnTwice ==
    /\ Charted
    /\ question = q_revenue
    /\ FrameOf(response.data).columns = <<col_timestamp, col_amount>>
    /\ response.chart = Figure("line", col_timestamp, col_timestamp, "Trend Analysis")

(* the columns that are neither temporal by name nor numeric and have at   *)
(* most half as many distinct values as the table has rows                 *)
FewDistinctCols(df) ==
    {c \in TextCols(df) \ TemporalCols(df) :
        2 * Cardinality({df.col[c][i] : i \in 1..df.len}) <= df.len}

(* C26 as stated: a column that is neither temporal nor numeric is         *)
(* categorical only with at most half as many distinct values as rows;     *)
(* a grouping question over a table none of whose columns is categorical   *)
(* in that sense gets no categorical distribution.                         *)
C26_OpaqueNeverCategorical ==
    (Charted /\ (HasWord(question, kw_tier) \/ HasWord(question, kw_category))
       /\ FewDistinctCols(FrameOf(response.data)) = {}) =>
        ~IsCategoryChart(response.chart)

(* C26 amended: every column of text is a label column, whatever the       *)
(* number of its distinct values and whatever its name.  When the first    *)
(* keyword rule of the context is the grouping rule, the chart is the      *)
(* categorical distribution exactly when the table has a text column and   *)
(* a numeric column, its labels are the first text column, and otherwise   *)
(* there is no chart.                                                      *)
C26_AnyTextColumnIsCategorical ==
    (Charted /\ KeywordRule(question) = 2) =>
        LET df == FrameOf(response.data) IN
        /\ IsCategoryChart(response.chart)
             <=> (TextCols(df) # {} /\ NumericCols(df) # {})
        /\ IsCategoryChart(response.chart)
             => response.chart.x = FirstOf(df, TextCols(df))
        /\ ~IsCategoryChart(response.chart) => response.chart = PyNone

(* a question by tier over two rows whose tiers differ: as many distinct   *)
(* values as rows, and the pie with the tiers as labels                    *)
C26_Witness ==
    /\ Charted
    /\ question = q_support
    /\ FrameOf(response.data).len = 2
    /\ ColumnOf(response.data, col_tier) = <<S("silver"), S("gold")>>
    /\ FewDistinctCols(FrameOf(response.data)) = {}
    /\ response.chart = Figure("pie", col_tier, col_amount, "Distribution")

(* a text that is valid JSON and no object with a message field *)
JsonWithoutMessage(v) ==
    /\ v.t = "str"
    /\ loads(v.s).ok
    /\ loads(v.s).v.t = "dict" => MessageAbsent(loads(v.s).v)

(* C27: a payload text that is valid JSON but no object with a message     *)
(* field (an array, a number, a string, null, or an object without         *)
(* message) is answered as plain text: the message is the whole text, data *)
(* and chart are None.                                                     *)
C27_JsonWithoutMessageIsPlainText ==
    (Normalized /\ JsonWithoutMessage(result.RESPONSE)) =>
        response = Response(result.RESPONSE, PyNone, PyNone)

(* the JSON text of an array asked about the weather: the answer names the *)
(* question and nothing of the payload                                     *)
C27_GeneratedResponse ==
    /\ Normalized
    /\ question = q_weather
    /\ result.RESPONSE = PyStr(JsonEncode(PyList(<<PyInt(1), PyInt(2)>>)))
    /\ response = Response(PyStr(<<"Generated response for: ">> \o q_weather),
                           PyNone, PyNone)

(* the payload is a map, or the JSON text of one, whose data field is      *)
(* present and is neither a record nor a list of records                   *)
UncoercibleData(v) ==
    /\ IsMapLike(v)
    /\ HasKey(AsMap(v), <<"data">>)
    /\ DictGet(AsMap(v), <<"data">>, PyNone) # PyNone
    /\ ~IsTable(DictGet(AsMap(v), <<"data">>, PyNone))

(* C28 as stated: data that is present but no table leaves the response    *)
(* with data None and chart None.                                          *)
C28_UncoercibleDataDropped ==
    (Normalized /\ UncoercibleData(result.RESPONSE)) =>
        /\ response.data = PyNone
        /\ response.chart = PyNone

(* C28 amended: data that is present but no table (a number, a text, a     *)
(* list of values that are no records, an empty list) is the response's    *)
(* data as it came; only the chart is None.                                *)
C28_UncoercibleDataPassedThrough ==
    (Normalized /\ UncoercibleData(result.RESPONSE)) =>
        /\ response.data = DictGet(AsMap(result.RESPONSE), <<"data">>, PyNone)
        /\ response.data # PyNone
        /\ response.chart = PyNone

(* a payload whose data is the number 5: the response carries the 5 *)
C28_Witness ==
    /\ Normalized
    /\ result.RESPONSE = PyDict(<<Msg(PyStr(msg_hi)), Data(PyInt(5))>>)
    /\ response = Response(PyStr(msg_hi), PyInt(5), PyNone)

(* the roles alternate, the user first *)
Alternates(h) ==
    \A i \in DOMAIN h : h[i].role = IF i % 2 = 1 THEN "user" ELSE "assistant"

(* C29: whether the question was typed or pending, and whether ask_ai      *)
(* returned or raised, a submission appends the user's record and then one *)
(* assistant record: the history alternates user, assistant from the       *)
(* start, holds whole pairs whenever no submission is under way, ends with *)
(* the question's user record while ask_ai runs, and a step of a           *)
(* submission only appends one record and leaves the earlier ones as they  *)
(* were.  Only the clear button empties the history.                       *)
C29_HistoryAlternates ==
    /\ [](/\ Alternates(chat_history)
          /\ chat_pc \in {"Waiting", "TypedShown"} => Len(chat_history) % 2 = 0
          /\ chat_pc \in {"TypedAsk", "PendingAsk"} =>
                /\ Len(chat_history) % 2 = 1
                /\ chat_history[Len(chat_history)] = user_record(chat_query))
    /\ [][/\ (chat_pc # "Waiting" \/ chat_pc' # "Waiting") =>
                /\ Len(chat_history') = Len(chat_history) + 1
                     \/ chat_history' = chat_history
                /\ SubSeq(chat_history', 1, Len(chat_history)) = chat_history
          /\ (chat_pc = "Waiting" /\ chat_pc' = "Waiting") =>
                chat_history' \in {chat_history, <<>>}]_vars

(* a typed question on which ask_ai raised, then a suggested query         *)
(* answered with a table: two pairs                                        *)
C29_Witness ==
    /\ chat_pc = "Waiting"
    /\ Len(chat_history) = 4
    /\ chat_history[1] = user_record(q_weather)
    /\ chat_history[2] = [role |-> "assistant",
                          content |-> <<"I encountered an error: ", "'cortex_client'">>]
    /\ chat_history[3] = user_record(q_support_issues)
    /\ chat_history[4].role = "assistant"
    /\ "data" \in DOMAIN chat_history[4]

(* the step names of complete_setup, in list order *)
StepNames == [i \in DOMAIN steps |-> steps[i].step_name]

(* the descriptions of the steps that returned False, in step order *)
FailedDescriptions ==
    LET failed == SelectSeq([i \in DOMAIN steps |-> i], LAMBDA i : ~step_ok[i])
    IN  [k \in DOMAIN failed |-> steps[failed[k]].description]

(* C30: complete_setup calls cleanup, database, search and agent once each *)
(* and in that order, whatever the earlier steps returned; when it reports *)
(* all four have been called and have returned; it prints the success line *)
(* and the next steps exactly when all four returned True, and otherwise   *)
(* the warning followed by the descriptions of exactly the steps that      *)
(* returned False, in step order.                                          *)
C30_AllStepsThenReport ==
    /\ attempts = SubSeq(StepNames, 1, Len(attempts))
    /\ Len(step_ok) \in {Len(attempts), Len(attempts) - 1}
    /\ (setup_pc.step = "Report" \/ printed # <<>>) =>
          /\ attempts = StepNames
          /\ Len(step_ok) = Len(steps)
    /\ printed # <<>> =>
          /\ printed[1].kind = "success" <=> \A i \in DOMAIN steps : step_ok[i]
          /\ printed[1].kind = "success" => printed[2].text = "NEXT STEPS"
          /\ printed[1].kind # "success" =>
                /\ printed[1] = [kind |-> "warning", text |-> "Some steps failed:"]
                /\ FailedDescriptions # <<>>
                /\ Tail(printed) =
                     [k \in DOMAIN FailedDescriptions |->
                        [kind |-> "error", text |-> FailedDescriptions[k]]]

(* cleanup declined and the second SQL file of the database failing:       *)
(* search and agent still ran, and the report names the two steps          *)
C30_Witness ==
    /\ setup_pc = At("Menu", 0)
    /\ step_ok = <<FALSE, FALSE, TRUE, TRUE>>
    /\ executed = <<"01_setup_database.sql", "02_create_tables.sql",
                    "04_cortex_search.sql", "06_cortex_agent.sql">>
    /\ printed = <<[kind |-> "warning", text |-> "Some steps failed:"],
                   [kind |-> "error", text |-> "Clean up existing demo"],
                   [kind |-> "error", text |-> "Set up database"]>>

==========================================================================
